---- MODULE Spec2Model ----
(***************************************************************************)
(* Model of the CLI provisioning engine of terraform-provider-clis:        *)
(* CliCheckDataSource.Read, setupNamedCli, the per-tool installers and the *)
(* MutexKV keyed lock registry.                                            *)
(*                                                                         *)
(* Strings are sequences of one-character strings, so that HasPrefix,      *)
(* Join and the regular expressions of the source are computed, not        *)
(* assumed.                                                                *)
(***************************************************************************)
EXTENDS Integers, Sequences, FiniteSets, TLC

(***************************************************************************)
(* Bounds of the model.                                                    *)
(***************************************************************************)
\* concurrent Read calls (goroutines) in SpecLock
NumProcs == 2
\* successive provisioning runs of one caller in Spec
MaxRuns == 2
\* environment faults (failed request, bad download) injected in one behaviour
MaxFaults == 1
\* length of the requested list drawn in SpecRead
MaxReq == 2
\* entries of the archives drawn in SpecTar
MaxEntries == 3
\* the calls of Lock and Unlock the first client of a MutexKV makes in SpecKV
MaxCalls == 2

(***************************************************************************)
(* String literals of the source.                                          *)
(***************************************************************************)
n_yq == <<"y", "q">>
n_jq == <<"j", "q">>
n_igc == <<"i", "g", "c">>
n_helm == <<"h", "e", "l", "m">>
n_argocd == <<"a", "r", "g", "o", "c", "d">>
n_rosa == <<"r", "o", "s", "a">>
n_kubeseal == <<"k", "u", "b", "e", "s", "e", "a", "l">>
n_oc == <<"o", "c">>
n_kustomize == <<"k", "u", "s", "t", "o", "m", "i", "z", "e">>
n_ibmcloud == <<"i", "b", "m", "c", "l", "o", "u", "d">>
n_ibmcloud_is == <<"i", "b", "m", "c", "l", "o", "u", "d", "-", "i", "s">>
n_ibmcloud_ob == <<"i", "b", "m", "c", "l", "o", "u", "d", "-", "o", "b">>
n_ibmcloud_ks == <<"i", "b", "m", "c", "l", "o", "u", "d", "-", "k", "s">>
n_ibmcloud_cr == <<"i", "b", "m", "c", "l", "o", "u", "d", "-", "c", "r">>
n_gitu == <<"g", "i", "t", "u">>
n_gh == <<"g", "h">>
n_glab == <<"g", "l", "a", "b">>
n_openshift_install == <<"o", "p", "e", "n", "s", "h", "i", "f", "t", "-", "i", "n", "s", "t", "a", "l", "l">>
n_operator_sdk == <<"o", "p", "e", "r", "a", "t", "o", "r", "-", "s", "d", "k">>
n_kubectl == <<"k", "u", "b", "e", "c", "t", "l">>
n_yq3 == <<"y", "q", "3">>
n_yq4 == <<"y", "q", "4">>

LowerOrHyphen == {"a", "b", "c", "d", "e", "f", "g", "h", "i", "j", "k", "l", "m",
                  "n", "o", "p", "q", "r", "s", "t", "u", "v", "w", "x", "y", "z", "-"}
Digit == {"0", "1", "2", "3", "4", "5", "6", "7", "8", "9"}

DigitVal(c) ==
    CASE c = "0" -> 0 [] c = "1" -> 1 [] c = "2" -> 2 [] c = "3" -> 3 [] c = "4" -> 4
      [] c = "5" -> 5 [] c = "6" -> 6 [] c = "7" -> 7 [] c = "8" -> 8 [] c = "9" -> 9

(***************************************************************************)
(* strings package                                                         *)
(***************************************************************************)
HasPrefix(s, prefix) ==
    /\ Len(prefix) <= Len(s)
    /\ SubSeq(s, 1, Len(prefix)) = prefix

RECURSIVE Join(_, _)
Join(elems, sep) ==
    IF elems = <<>> THEN <<>>
    ELSE IF Len(elems) = 1 THEN elems[1]
    ELSE elems[1] \o sep \o Join(Tail(elems), sep)

\* the end of the longest run of characters of class cls that starts at i
\* (i - 1 when s[i] is not in cls)
RECURSIVE RunEnd(_, _, _)
RunEnd(s, i, cls) ==
    IF i <= Len(s) /\ s[i] \in cls THEN RunEnd(s, i + 1, cls) ELSE i - 1

(***************************************************************************)
(* helpers.go                                                              *)
(***************************************************************************)
RECURSIVE uniqueFrom(_, _)
uniqueFrom(stringSlice, list) ==
    IF stringSlice = <<>> THEN list
    ELSE LET entry == Head(stringSlice)
         IN  IF \E i \in 1..Len(list) : list[i] = entry
             THEN uniqueFrom(Tail(stringSlice), list)
             ELSE uniqueFrom(Tail(stringSlice), Append(list, entry))

\* a faulty unique, to test C4: a unique that removes nothing
uniqueKeepsAll(stringSlice) == stringSlice

unique(stringSlice) == uniqueFrom(stringSlice, <<>>)

RECURSIVE first(_)
first(values) ==
    IF values = <<>> THEN <<>>
    ELSE IF Len(Head(values)) > 0 THEN Head(values)
    ELSE first(Tail(values))

(***************************************************************************)
(* regular expressions of the source, matched as Go's regexp does          *)
(* (leftmost match, greedy quantifiers, first alternative that succeeds)   *)
(***************************************************************************)
NoMatch == <<>>

\* versionedInstallRe = "([a-z-]+)-([0-9]+[.]?[0-9]*[.]?[0-9]*)" tried at start i:
\* group 1 is the longest run s[i..j] of [a-z-] that is followed by "-" and a digit
versionedInstallReAt(s, i) ==
    LET \* [.]? after the digits that end at d
        dot(d) == IF d + 1 <= Len(s) /\ s[d + 1] = "." THEN d + 1 ELSE d
        groups(j, d3) == <<SubSeq(s, i, d3), SubSeq(s, i, j), SubSeq(s, j + 2, d3)>>
        from(j) ==
            groups(j, RunEnd(s, dot(RunEnd(s, dot(RunEnd(s, j + 2, Digit)) + 1, Digit)) + 1,
                             Digit))
        pick(js) == IF js = {} THEN NoMatch ELSE from(CHOOSE m \in js : \A n \in js : n <= m)
        ends(r) == {j \in i..(r - 1) : s[j + 1] = "-" /\ j + 2 <= Len(s) /\ s[j + 2] \in Digit}
    IN  pick(ends(RunEnd(s, i, LowerOrHyphen)))

\* a faulty expression, to test C37: an expression that wants the three numbers
\* of a full version, "([a-z-]+)-([0-9]+[.][0-9]+[.][0-9]+)", which none of the
\* requested names has
versionedInstallReFull(s) == NoMatch

\* versionedInstallRe.FindStringSubmatch(s): the match at the leftmost start
versionedInstallRe(s) ==
    LET starts == {i \in 1..Len(s) : versionedInstallReAt(s, i) # NoMatch}
    IN  IF starts = {} THEN NoMatch
        ELSE versionedInstallReAt(s, CHOOSE i \in starts : \A k \in starts : i <= k)

\* `[^\d]*(?P<Major>\d+).(?P<Minor>\d+)[.]?(?P<Patch>\d*).*` tried at start i
cleanVersionReAt(s, i) ==
    LET RECURSIVE skip(_)
        skip(k) == IF k <= Len(s) /\ s[k] \notin Digit THEN skip(k + 1) ELSE k - 1
        dot(c) == IF c + 1 <= Len(s) /\ s[c + 1] = "." THEN c + 1 ELSE c
        groups(a, m, c, p, e3) ==
            <<SubSeq(s, i, e3), SubSeq(s, a + 1, m), SubSeq(s, m + 2, c), SubSeq(s, p + 1, e3)>>
        patch(a, m, c, p) == groups(a, m, c, p, RunEnd(s, p + 1, Digit))
        minor(a, m, c) == patch(a, m, c, dot(c))
        major(a, m) == minor(a, m, RunEnd(s, m + 2, Digit))
        pick(a, ms) ==
            IF ms = {} THEN NoMatch ELSE major(a, CHOOSE e \in ms : \A n \in ms : n <= e)
        \* ends m of Major for which "." (any character but a newline) and one
        \* digit of Minor follow
        ends(a, b) == {m \in (a + 1)..b :
                         /\ m + 2 <= Len(s)
                         /\ s[m + 1] # "\n"
                         /\ s[m + 2] \in Digit}
        from(a) == pick(a, ends(a, RunEnd(s, a + 1, Digit)))
    IN  from(skip(i))

cleanVersionRe(s) ==
    LET starts == {i \in 1..Len(s) : cleanVersionReAt(s, i) # NoMatch}
    IN  IF starts = {} THEN NoMatch
        ELSE cleanVersionReAt(s, CHOOSE i \in starts : \A k \in starts : i <= k)

cleanVersionString(value) ==
    LET grp(g) == IF Len(g) = 0 THEN <<"0">> ELSE g
        clean(match) ==
            IF match = NoMatch THEN <<>>
            ELSE grp(match[2]) \o <<".">> \o grp(match[3]) \o <<".">> \o grp(match[4])
    IN  clean(cleanVersionRe(value))

(***************************************************************************)
(* github.com/hashicorp/go-version, for the dotted numeric strings the     *)
(* model uses: NewVersion fails on an empty segment, pads to three         *)
(* segments, and LessThan compares segment by segment                      *)
(***************************************************************************)
RECURSIVE ToNum(_)
ToNum(ds) == IF ds = <<>> THEN 0 ELSE 10 * ToNum(SubSeq(ds, 1, Len(ds) - 1)) + DigitVal(ds[Len(ds)])

RECURSIVE Segments(_, _)
Segments(s, i) ==
    LET seg(e) ==
            IF e < i THEN <<-1>>
            ELSE IF e = Len(s) THEN <<ToNum(SubSeq(s, i, e))>>
            ELSE IF s[e + 1] = "." THEN <<ToNum(SubSeq(s, i, e))>> \o Segments(s, e + 2)
            ELSE <<-1>>
    IN  seg(RunEnd(s, i, Digit))

VersionError == <<-1>>

NewVersion(v) ==
    LET pad(segs) ==
            IF \E k \in 1..Len(segs) : segs[k] = -1 THEN VersionError
            ELSE IF Len(segs) = 1 THEN segs \o <<0, 0>>
            ELSE IF Len(segs) = 2 THEN segs \o <<0>>
            ELSE segs
    IN  pad(Segments(v, 1))

RECURSIVE LessThan(_, _)
LessThan(a, b) ==
    IF a = <<>> \/ b = <<>> THEN FALSE
    ELSE IF Head(a) # Head(b) THEN Head(a) < Head(b)
    ELSE LessThan(Tail(a), Tail(b))

(***************************************************************************)
(* The host: file system, working directory and PATH lookups.              *)
(* A file system value is a record                                         *)
(*   dirs    : the destination directories that exist (absolute paths)     *)
(*   files   : absolute path -> entry, for the entries that exist          *)
(*   plugins : the ibmcloud plugins installed                              *)
(* An entry is a regular executable file (what it prints for --version     *)
(* and whether it runs with exit status 0) or a symbolic link.             *)
(***************************************************************************)
Slash == <<"/">>
Colon == <<":">>
\* os.Getwd() of the provider process
Cwd == <<"/", "w">>
\* the directory of PATH that holds the tools installed on the host
SysDir == <<"/", "s">>

File(out, ok) == [kind |-> "file", out |-> out, ok |-> ok, to |-> <<>>]
Link(target) == [kind |-> "link", out |-> <<>>, ok |-> FALSE, to |-> target]

\* path.Join / filepath.Join of a directory and a name (both already clean)
PathJoin(dir, name) == IF dir = <<>> THEN name ELSE dir \o Slash \o name

\* a faulty Abs, to test C13: a relative path is taken as it is
AbsRaw(p) == p

\* the absolute path the kernel resolves a path to
Abs(p) == IF HasPrefix(p, Slash) THEN p ELSE PathJoin(Cwd, p)

\* filepath.SplitList
RECURSIVE SplitList(_)
SplitList(path) ==
    LET split(e) ==
            IF e = Len(path) THEN <<path>>
            ELSE IF e + 1 = Len(path) THEN <<SubSeq(path, 1, e), <<>>>>
            ELSE <<SubSeq(path, 1, e)>> \o SplitList(SubSeq(path, e + 2, Len(path)))
    IN  IF path = <<>> THEN <<>>
        ELSE split(RunEnd(path, 1, {c \in {path[i] : i \in 1..Len(path)} : c # ":"}))

\* fileExists (helpers.go): os.Lstat succeeds, links are not followed
fileExists(fs, filename) == Abs(filename) \in DOMAIN fs.files

\* the regular file a path leads to, following one symbolic link; NoFile if none
NoFile == [kind |-> "none", out |-> <<>>, ok |-> FALSE, to |-> <<>>]
Stat(fs, p) ==
    LET target(t) ==
            IF t \in DOMAIN fs.files /\ fs.files[t].kind = "file" THEN fs.files[t] ELSE NoFile
        follow(e) == IF e.kind = "file" THEN e ELSE target(Abs(e.to))
        at(a) == IF a \notin DOMAIN fs.files THEN NoFile ELSE follow(fs.files[a])
    IN  at(Abs(p))

NotFound == <<>>

\* exec.LookPath for a name without a slash: the first directory of PATH in
\* which the name is an executable file
RECURSIVE LookPathIn(_, _, _)
LookPathIn(fs, dirs, file) ==
    LET try(p) == IF Stat(fs, p).kind = "file" THEN p ELSE LookPathIn(fs, Tail(dirs), file)
    IN  IF dirs = <<>> THEN NotFound
        ELSE try(PathJoin(IF Head(dirs) = <<>> THEN <<".">> ELSE Head(dirs), file))

LookPath(fs, envPath, file) == LookPathIn(fs, SplitList(envPath), file)

\* exec.Command(path, args...).Run(): nil exactly when the file exists and exits 0
RunOk(fs, p) ==
    LET ok(e) == e.kind = "file" /\ e.ok
    IN  ok(Stat(fs, p))

\* os.MkdirAll(destDir, os.ModePerm): fails for the empty path
MkdirAllOk(destDir) == destDir # <<>>
MkdirAll(fs, destDir) ==
    IF MkdirAllOk(destDir) THEN [fs EXCEPT !.dirs = @ \cup {Abs(destDir)}] ELSE fs

\* os.OpenFile(path, O_RDWR|O_CREATE|O_TRUNC, 0777): an empty executable file
WriteFile(fs, p, entry) ==
    LET at(a) == [fs EXCEPT !.files = [q \in DOMAIN fs.files \cup {a} |->
                                          IF q = a THEN entry ELSE fs.files[q]]]
    IN  at(Abs(p))

(***************************************************************************)
(* Outcomes of the calls the installers make to the outside world, drawn   *)
(* by the actions: o.lookup for the release lookup (or the kubectl         *)
(* stable.txt request), o.fetch[k] for the k-th download of the installer, *)
(* o.member for whether the archive holds the requested member.            *)
(* The release lookup is answered with a redirect to the tag ("ok"), with  *)
(* a redirect to a page that is no tag ("notag"), without a Location       *)
(* header ("nolocation"), or not at all ("neterr").                        *)
(***************************************************************************)
LookupOutcomes == {"ok", "neterr", "nolocation", "notag"}
FetchOutcomes == {"good", "bad", "neterr", "status"}
Outcomes == [lookup : LookupOutcomes, fetch : FetchOutcomes \X FetchOutcomes, member : BOOLEAN]
AllGood == [lookup |-> "ok", fetch |-> <<"good", "good">>, member |-> TRUE]

Nil == "nil"
\* a (changed, err) pair with the file system the call leaves, the number of
\* network requests it issued and the number of outside faults it met
\* .detail is the text the error message carries besides its fixed words
Result(changed, err, fs, net, used) ==
    [changed |-> changed, err |-> err, fs |-> fs, net |-> net, used |-> used, detail |-> <<>>]
\* a faulty Errorf, to test C18: the error is lost
ErrorfLost(r, format, args) == r

\* fmt.Errorf(format, args...) as the error of r
Errorf(r, format, args) == [r EXCEPT !.err = format, !.detail = args]
Plus(r, net, used) == [r EXCEPT !.net = @ + net, !.used = @ + used]
Fatal == "log.Fatal"

\* resp.Status of a response that is not 200
StatusText == <<"4", "0", "4">>
\* what a file that exits non-zero writes to standard error
ExitText == <<"b", "a", "d">>
\* errb.String() after cmd.Run() of the file at p
errb(fs, p) == IF RunOk(fs, p) THEN <<>> ELSE ExitText

\* what the release the installer downloads prints for --version
ReleaseTag == <<"v", "2", ".", "0", ".", "0">>
yq3Out == <<"y", "q", " ", "3", ".", "4", ".", "1">>
yq4Out == <<"y", "q", " ", "4", ".", "2", "5", ".", "2">>
DownloadedOut(cliName, version) ==
    IF cliName = n_jq THEN n_jq \o <<"-">> \o version
    ELSE IF cliName = n_yq3 THEN yq3Out
    ELSE IF cliName = n_yq4 THEN yq4Out
    ELSE ReleaseTag

\* the directory of a path: the text before its last slash
Dir(p) ==
    LET slashes == {i \in 1..Len(p) : p[i] = "/"}
    IN  IF slashes = {} THEN <<>>
        ELSE SubSeq(p, 1, (CHOOSE i \in slashes : \A k \in slashes : k <= i) - 1)

\* os.Symlink: the directory of the link must exist
SymlinkOk(fs, linkTo) == Dir(Abs(linkTo)) \in fs.dirs \cup {Cwd, SysDir}

\* a faulty createSymLink, to test C22: the link is made without the test for an
\* existing entry
createSymLinkAlways(fs, envPath, cli, linkTo) ==
    LET link(cliPath) ==
            IF cliPath = NotFound
            THEN Result(FALSE, "executable file not found in $PATH", fs, 0, 0)
            ELSE Result(TRUE, Nil, WriteFile(fs, linkTo, Link(cliPath)), 0, 0)
    IN  link(LookPath(fs, envPath, cli))

createSymLink(fs, envPath, cli, linkTo) ==
    LET link(cliPath) ==
            IF cliPath = NotFound
            THEN Result(FALSE, "executable file not found in $PATH", fs, 0, 0)
            ELSE IF cliPath = linkTo THEN Result(FALSE, Nil, fs, 0, 0)
            ELSE IF SymlinkOk(fs, linkTo)
                 THEN Result(TRUE, Nil, WriteFile(fs, linkTo, Link(cliPath)), 0, 0)
                 ELSE Result(TRUE, "symlink: no such file or directory", fs, 0, 0)
    IN  IF fileExists(fs, linkTo) THEN Result(FALSE, Nil, fs, 0, 0)
        ELSE link(LookPath(fs, envPath, cli))

\* the version gate of cliAlreadyPresent: "absent" when the tool reports a
\* version below minVersion, Fatal when a version cannot be parsed, else "pass"
versionGate(fs, cliPath, minVersion) ==
    LET compare(currentVersion, desiredVersion) ==
            IF currentVersion = VersionError THEN Fatal
            ELSE IF desiredVersion = VersionError THEN Fatal
            ELSE IF LessThan(currentVersion, desiredVersion) THEN "absent"
            ELSE "pass"
        check(out) ==
            IF Len(out) = 0 THEN "pass"
            ELSE compare(NewVersion(cleanVersionString(out)), NewVersion(minVersion))
        run(e) == IF ~(e.kind = "file" /\ e.ok) THEN "pass" ELSE check(e.out)
    IN  IF Len(minVersion) = 0 THEN "pass" ELSE run(Stat(fs, cliPath))

\* cliAlreadyPresent: .changed is the boolean it returns, .err is Fatal when it
\* ends the process
cliAlreadyPresent(fs, envPath, destDir, cliName, minVersion) ==
    LET linked(link) == Result(link.changed, Nil, link.fs, 0, 0)
        gated(gate) ==
            IF gate = Fatal THEN Result(FALSE, Fatal, fs, 0, 0)
            ELSE IF gate = "absent" THEN Result(FALSE, Nil, fs, 0, 0)
            ELSE linked(createSymLink(fs, envPath, cliName, PathJoin(destDir, cliName)))
        found(cliPath) ==
            IF cliPath = NotFound THEN Result(FALSE, Nil, fs, 0, 0)
            ELSE IF HasPrefix(cliPath, destDir) THEN Result(TRUE, Nil, fs, 0, 0)
            ELSE gated(versionGate(fs, cliPath, minVersion))
    IN  found(LookPath(fs, envPath, cliName))

\* `.*([0-9]+[.][0-9]+[.][0-9]+).*` at group start g: the end of the group, 0 if none
versionTripleEnd(s, g) ==
    LET third(e2, e3) == IF e3 >= e2 + 2 THEN e3 ELSE 0
        second(e1, e2) ==
            IF e2 >= e1 + 2 /\ e2 + 1 <= Len(s) /\ s[e2 + 1] = "."
            THEN third(e2, RunEnd(s, e2 + 2, Digit)) ELSE 0
        firstRun(e1) ==
            IF e1 >= g /\ e1 + 1 <= Len(s) /\ s[e1 + 1] = "."
            THEN second(e1, RunEnd(s, e1 + 2, Digit)) ELSE 0
    IN  firstRun(RunEnd(s, g, Digit))

\* group 1 of the leftmost match: the first line that holds a triple, and in it
\* the triple that starts last (the leading .* is greedy)
versionTriple(s) ==
    LET group(g) == SubSeq(s, g, versionTripleEnd(s, g))
        last(same) == group(CHOOSE m \in same : \A k \in same : k <= m)
        line(cands, g1) == last({g \in cands : \A k \in g1..(g - 1) : s[k] # "\n"})
        pick(cands) ==
            IF cands = {} THEN NoMatch
            ELSE line(cands, CHOOSE g \in cands : \A k \in cands : g <= k)
    IN  pick({g \in 1..Len(s) : versionTripleEnd(s, g) # 0})

\* a faulty checkCurrentVersion, to test C27: the version found is not compared
checkCurrentVersionAny(fs, envPath, cli, major) ==
    LET run(e) == e.kind = "file" /\ e.ok /\ versionTriple(e.out) # NoMatch
        found(cliPath) == cliPath # NotFound /\ run(Stat(fs, cliPath))
    IN  found(LookPath(fs, envPath, cli))

\* checkCurrentVersion with versionRegEx "^<major>[.][0-9]*"
checkCurrentVersion(fs, envPath, cli, major) ==
    LET matches(version) == version # NoMatch /\ version[1] = major /\ version[2] = "."
        run(e) == e.kind = "file" /\ e.ok /\ matches(versionTriple(e.out))
        found(cliPath) == cliPath # NotFound /\ run(Stat(fs, cliPath))
    IN  found(LookPath(fs, envPath, cli))

\* resp.Header.Get("Location") of the response to .../releases/latest
Location(lookup) ==
    IF lookup = "ok" THEN <<"/", "r", "/", "t", "a", "g", "/", "v", "2", ".", "0", ".", "0">>
    ELSE IF lookup = "notag" THEN <<"/", "r">>
    ELSE <<>>

\* a faulty tag expression, to test C23: the whole Location is taken as the tag
tagReWhole(s) == s

\* regexp ".*/tag/(.+)", group 1 of the match: the text after the last "/tag/"
\* that is followed by text; NoMatch if there is none
tagRe(s) ==
    LET group(starts) ==
            IF starts = {} THEN NoMatch
            ELSE SubSeq(s, (CHOOSE i \in starts : \A k \in starts : k <= i) + 5, Len(s))
    IN  group({i \in 1..Len(s) : i + 5 <= Len(s) /\ SubSeq(s, i, i + 4) = <<"/", "t", "a", "g", "/">>})

\* getLatestGitHubRelease: one request, redirects not followed
getLatestGitHubRelease(lookup) ==
    LET release(tag, err) ==
            [TagName |-> tag, err |-> err, net |-> 1, used |-> IF err = Nil THEN 0 ELSE 1]
        parsed(latestTagMatch) ==
            IF latestTagMatch = NoMatch
            THEN release(<<>>, "unable to parse latest tag from url")
            ELSE release(latestTagMatch, Nil)
        located(latestUrl) ==
            IF Len(latestUrl) = 0
            THEN release(<<>>, "unable to retrieve location header from url")
            ELSE parsed(tagRe(latestUrl))
    IN  IF lookup = "neterr" THEN release(<<>>, "neterr") ELSE located(Location(lookup))

\* writeFileFromUrl: the file is created (truncated) before the request is made
writeFileFromUrl(fs, destDir, destFile, fetch, out) ==
    LET created(fs1) ==
            IF fetch = "neterr" THEN Result(FALSE, "Get: connection failed", fs1, 1, 1)
            ELSE IF fetch = "status"
                 THEN Errorf(Result(FALSE, Nil, fs1, 1, 1), "bad status retrieving file", StatusText)
            ELSE Result(FALSE, Nil, fs1, 1, 1)
    IN  IF fetch = "good"
        THEN Result(FALSE, Nil, WriteFile(fs, PathJoin(destDir, destFile), File(out, TRUE)), 1, 0)
        ELSE created(WriteFile(fs, PathJoin(destDir, destFile), File(<<>>, FALSE)))

\* a faulty setupBinary, to test C36: the download is not preceded by the test
\* for an existing entry
setupBinaryOverwrites(fs, envPath, destDir, cliName, minVersion, fetch, out) ==
    LET written(w) ==
            IF w.err # Nil THEN w
            ELSE IF ~RunOk(w.fs, PathJoin(destDir, cliName))
                 THEN Errorf(w, "unable to validate downloaded cli",
                             errb(w.fs, PathJoin(destDir, cliName)))
            ELSE [w EXCEPT !.changed = TRUE]
        checked(present) ==
            IF present.err = Fatal THEN present
            ELSE IF present.changed THEN Result(FALSE, Nil, present.fs, 0, 0)
            ELSE written(writeFileFromUrl(present.fs, destDir, cliName, fetch, out))
    IN  checked(cliAlreadyPresent(fs, envPath, destDir, cliName, minVersion))

setupBinary(fs, envPath, destDir, cliName, minVersion, fetch, out) ==
    LET written(w) ==
            IF w.err # Nil THEN w
            ELSE IF ~RunOk(w.fs, PathJoin(destDir, cliName))
                 THEN Errorf(w, "unable to validate downloaded cli",
                             errb(w.fs, PathJoin(destDir, cliName)))
            ELSE [w EXCEPT !.changed = TRUE]
        checked(present) ==
            IF present.err = Fatal THEN present
            ELSE IF present.changed THEN Result(FALSE, Nil, present.fs, 0, 0)
            ELSE IF fileExists(present.fs, PathJoin(destDir, cliName))
                 THEN Result(FALSE, Nil, present.fs, 0, 0)
            ELSE written(writeFileFromUrl(present.fs, destDir, cliName, fetch, out))
    IN  checked(cliAlreadyPresent(fs, envPath, destDir, cliName, minVersion))

\* archive/tar: an archive is the sequence of its entries; an entry has the
\* Typeflag and the Name of its header and, as body, the file it unpacks to.
\* The Typeflag "tar.ErrHeader" stands for a header tarReader.Next() cannot read.
TarEntry(typeflag, name, body) == [Typeflag |-> typeflag, Name |-> name, body |-> body]

\* extractFileFromTar: os.OpenFile(O_RDWR|O_CREATE|O_TRUNC) and io.Copy of the entry
extractFileFromTar(fs, body, destDir, destFile) == WriteFile(fs, PathJoin(destDir, destFile), body)

\* a faulty test of the header name, to test C17: no regular file is skipped
skippedNever(header, targetFile) == FALSE

\* extractTarGz, case tar.TypeReg: header.Name != targetFile
skipped(header, targetFile) == header.Name # targetFile

\* extractTarGz, the loop from entry k on: .fs is the file system it leaves,
\* .err the error it returns, .writes the number of extractFileFromTar calls
\* and .read the number of headers it has read
RECURSIVE tarWalk(_, _, _, _, _, _, _)
tarWalk(fs, entries, k, targetFile, destDir, destFile, writes) ==
    IF k > Len(entries)
    THEN [fs |-> fs, err |-> Nil, writes |-> writes, read |-> Len(entries)]
    ELSE IF entries[k].Typeflag = "tar.ErrHeader"
    THEN [fs |-> fs, err |-> "archive/tar: invalid tar header", writes |-> writes, read |-> k - 1]
    ELSE IF entries[k].Typeflag = "tar.TypeReg" /\ ~skipped(entries[k], targetFile)
    THEN tarWalk(extractFileFromTar(fs, entries[k].body, destDir, destFile), entries, k + 1,
                 targetFile, destDir, destFile, writes + 1)
    ELSE tarWalk(fs, entries, k + 1, targetFile, destDir, destFile, writes)

extractTarGz(fs, entries, targetFile, destDir, destFile) ==
    tarWalk(fs, entries, 1, targetFile, destDir, destFile, 0)

\* the archive a release publishes: a directory and one regular file, which is
\* the requested member or, when member is FALSE, a file of another name
n_readme == <<"R", "E", "A", "D", "M", "E">>
Tarball(cliName, member, body) ==
    <<TarEntry("tar.TypeDir", <<>>, NoFile),
      TarEntry("tar.TypeReg", IF member THEN cliName ELSE n_readme, body)>>

\* extractTarGxFromUrl: the request, then extractTarGz of the response body
extractTarGxFromUrl(fs, destDir, cliName, fetch, member, out) ==
    LET read(used) ==
            Result(FALSE, Nil,
                   extractTarGz(fs, Tarball(cliName, member,
                                            IF fetch = "good" THEN File(out, TRUE)
                                            ELSE File(<<>>, FALSE)),
                                cliName, destDir, cliName).fs,
                   1, used)
    IN  IF fetch = "neterr" THEN Result(FALSE, "Get: connection failed", fs, 1, 1)
        ELSE IF fetch = "status"
             THEN Errorf(Result(FALSE, Nil, fs, 1, 1), "bad status retrieving cli", StatusText)
        ELSE read((IF fetch = "good" THEN 0 ELSE 1) + (IF member THEN 0 ELSE 1))

setupBinaryFromTgz(fs, envPath, destDir, cliName, fetch, member, out) ==
    LET extracted(x) ==
            IF x.err # Nil THEN Errorf(x, "unable to extract tgz from url", <<>>)
            ELSE IF ~RunOk(x.fs, PathJoin(destDir, cliName))
                 THEN [x EXCEPT !.changed = TRUE, !.err = "unable to validate downloaded cli"]
            ELSE [x EXCEPT !.changed = TRUE]
    IN  IF LookPath(fs, envPath, cliName) # NotFound THEN Result(FALSE, Nil, fs, 0, 0)
        ELSE extracted(extractTarGxFromUrl(fs, destDir, cliName, fetch, member, out))

(***************************************************************************)
(* The installers.                                                         *)
(***************************************************************************)
\* setupJq, setupIgc, setupArgoCD, setupGitu, setupOperatorSdk: a direct-binary
\* tool, with a release lookup when its URL names the latest release
setupBinaryTool(fs, envPath, destDir, cliName, version, hasRelease, o) ==
    LET download(present, releaseInfo) ==
            IF present.err = Fatal THEN present
            ELSE IF present.changed THEN Result(FALSE, Nil, present.fs, 0, 0)
            ELSE IF hasRelease /\ releaseInfo.err # Nil
                 THEN Result(FALSE, releaseInfo.err, present.fs, 1, releaseInfo.used)
            ELSE Plus(setupBinary(present.fs, envPath, destDir, cliName, version, o.fetch[1],
                                  IF hasRelease THEN releaseInfo.TagName
                                  ELSE DownloadedOut(cliName, version)),
                      IF hasRelease THEN 1 ELSE 0, 0)
    IN  download(cliAlreadyPresent(fs, envPath, destDir, cliName, version),
                 getLatestGitHubRelease(o.lookup))

\* setupHelm, setupRosa, setupKubeseal, setupKustomize, setupGh, setupGlab,
\* setupOpenShiftInstall: an archive tool
setupTgzTool(fs, envPath, destDir, cliName, minVersion, hasRelease, o) ==
    LET download(present, releaseInfo) ==
            IF present.err = Fatal THEN present
            ELSE IF present.changed THEN Result(FALSE, Nil, present.fs, 0, 0)
            ELSE IF hasRelease /\ releaseInfo.err # Nil
                 THEN Result(FALSE, releaseInfo.err, present.fs, 1, releaseInfo.used)
            ELSE Plus(setupBinaryFromTgz(present.fs, envPath, destDir, cliName, o.fetch[1],
                                         o.member,
                                         IF hasRelease THEN releaseInfo.TagName
                                         ELSE DownloadedOut(cliName, minVersion)),
                      IF hasRelease THEN 1 ELSE 0, 0)
    IN  download(cliAlreadyPresent(fs, envPath, destDir, cliName, minVersion),
                 getLatestGitHubRelease(o.lookup))

\* setupYq3 (major "3", yq3) and setupYq4 (major "4", yq4)
setupYqN(fs, envPath, destDir, cliName, major, fetch) ==
    IF checkCurrentVersion(fs, envPath, n_yq, major)
    THEN createSymLink(fs, envPath, n_yq, PathJoin(destDir, cliName))
    ELSE IF checkCurrentVersion(fs, envPath, cliName, major)
    THEN createSymLink(fs, envPath, cliName, PathJoin(destDir, cliName))
    ELSE setupBinary(fs, envPath, destDir, cliName, <<>>, fetch, DownloadedOut(cliName, <<>>))

\* a faulty setupYq, to test C21: setupYq4 runs also after setupYq3 has failed
setupYqAll(fs, envPath, destDir, o) ==
    LET both(yq3Result, yq4Result) ==
            IF yq3Result.err # Nil
            THEN Plus([yq4Result EXCEPT !.changed = FALSE, !.err = yq3Result.err],
                      yq3Result.net, yq3Result.used)
            ELSE Plus([yq4Result EXCEPT !.changed = yq3Result.changed \/ yq4Result.changed],
                      yq3Result.net, yq3Result.used)
        after(yq3Result) ==
            both(yq3Result, setupYqN(yq3Result.fs, envPath, destDir, n_yq4, "4", o.fetch[2]))
    IN  after(setupYqN(fs, envPath, destDir, n_yq3, "3", o.fetch[1]))

setupYq(fs, envPath, destDir, o) ==
    LET both(yq3Result, yq4Result) ==
            IF yq4Result.err # Nil
            THEN Plus([yq4Result EXCEPT !.changed = FALSE], yq3Result.net, yq3Result.used)
            ELSE Plus([yq4Result EXCEPT !.changed = yq3Result.changed \/ yq4Result.changed],
                      yq3Result.net, yq3Result.used)
        after(yq3Result) ==
            IF yq3Result.err # Nil THEN [yq3Result EXCEPT !.changed = FALSE]
            ELSE both(yq3Result,
                      setupYqN(yq3Result.fs, envPath, destDir, n_yq4, "4", o.fetch[2]))
    IN  after(setupYqN(fs, envPath, destDir, n_yq3, "3", o.fetch[1]))

setupOc(fs, envPath, destDir, o) ==
    LET download(present) ==
            IF present.changed THEN Result(FALSE, Nil, present.fs, 0, 0)
            ELSE setupBinaryFromTgz(present.fs, envPath, destDir, n_oc, o.fetch[1], o.member,
                                    DownloadedOut(n_oc, <<>>))
    IN  download(cliAlreadyPresent(fs, envPath, destDir, n_oc, <<>>))

\* setupKubectl, http.Get of stable.txt: only a failed request is an error
stableRelease(lookup) ==
    [err |-> IF lookup = "neterr" THEN lookup ELSE Nil, used |-> IF lookup = "neterr" THEN 1 ELSE 0]

setupKubectl(fs, envPath, destDir, o) ==
    LET download(present, release) ==
            IF present.changed THEN Result(FALSE, Nil, present.fs, 0, 0)
            ELSE IF release.err # Nil THEN Result(FALSE, release.err, present.fs, 1, release.used)
            ELSE Plus(setupBinary(present.fs, envPath, destDir, n_kubectl, <<>>, o.fetch[2],
                                  DownloadedOut(n_kubectl, <<>>)), 1, 0)
    IN  download(cliAlreadyPresent(fs, envPath, destDir, n_kubectl, <<>>),
                 stableRelease(o.lookup))

\* a faulty composite, to test C35: a setupKube that goes on to kubectl when
\* setupOc returned an error
setupKubeRegardless(fs, envPath, destDir, o) ==
    LET both(ocResult, kubectlResult) ==
            IF ocResult.err # Nil
            THEN Plus([kubectlResult EXCEPT !.changed = FALSE, !.err = ocResult.err],
                      ocResult.net, ocResult.used)
            ELSE IF kubectlResult.err # Nil
            THEN Plus([kubectlResult EXCEPT !.changed = FALSE], ocResult.net, ocResult.used)
            ELSE Plus([kubectlResult EXCEPT !.changed = ocResult.changed \/ kubectlResult.changed],
                      ocResult.net, ocResult.used)
        after(ocResult) == both(ocResult, setupKubectl(ocResult.fs, envPath, destDir, o))
    IN  after(setupOc(fs, envPath, destDir, o))

setupKube(fs, envPath, destDir, o) ==
    LET both(ocResult, kubectlResult) ==
            IF kubectlResult.err # Nil
            THEN Plus([kubectlResult EXCEPT !.changed = FALSE], ocResult.net, ocResult.used)
            ELSE Plus([kubectlResult EXCEPT !.changed = ocResult.changed \/ kubectlResult.changed],
                      ocResult.net, ocResult.used)
        after(ocResult) ==
            IF ocResult.err # Nil THEN [ocResult EXCEPT !.changed = FALSE]
            ELSE both(ocResult, setupKubectl(ocResult.fs, envPath, destDir, o))
    IN  after(setupOc(fs, envPath, destDir, o))

setupIBMCloud(fs, envPath, destDir, o) ==
    LET configured(result) ==
            IF result.err # Nil THEN [result EXCEPT !.changed = FALSE]
            ELSE IF ~RunOk(result.fs, PathJoin(destDir, n_ibmcloud))
                 THEN [result EXCEPT !.changed = FALSE, !.err = "exec: config failed"]
            ELSE result
        download(present, releaseInfo) ==
            IF present.changed THEN Result(FALSE, Nil, present.fs, 0, 0)
            ELSE IF releaseInfo.err # Nil
                 THEN Result(FALSE, releaseInfo.err, present.fs, 1, releaseInfo.used)
            ELSE configured(Plus(setupBinaryFromTgz(present.fs, envPath, destDir, n_ibmcloud,
                                                    o.fetch[1], o.member, releaseInfo.TagName),
                                 1, 0))
    IN  download(cliAlreadyPresent(fs, envPath, destDir, n_ibmcloud, <<>>),
                 getLatestGitHubRelease(o.lookup))

\* ibmcloudPluginExists: "ibmcloud plugin show" of the ibmcloud in destDir exits 0
ibmcloudPluginExists(fs, destDir, pluginName) ==
    RunOk(fs, PathJoin(destDir, n_ibmcloud)) /\ pluginName \in fs.plugins

\* a faulty setupIBMCloudPlugin, to test C28: the plugin is installed without
\* asking whether it is there
setupIBMCloudPluginAgain(fs, destDir, pluginName, o) ==
    IF ~RunOk(fs, PathJoin(destDir, n_ibmcloud))
    THEN Result(FALSE, "exec: plugin install failed", fs, 0, 0)
    ELSE IF o.fetch[1] # "good" THEN Result(FALSE, "exec: plugin install failed", fs, 0, 1)
    ELSE Result(TRUE, Nil, [fs EXCEPT !.plugins = @ \cup {pluginName}], 0, 0)

\* setupIBMCloudPlugin: "ibmcloud plugin install" is run by the ibmcloud of the
\* destination directory, which fetches the plugin (o.fetch[1]); the provider
\* issues no request of its own
setupIBMCloudPlugin(fs, destDir, pluginName, o) ==
    IF ibmcloudPluginExists(fs, destDir, pluginName) THEN Result(FALSE, Nil, fs, 0, 0)
    ELSE IF ~RunOk(fs, PathJoin(destDir, n_ibmcloud))
         THEN Result(FALSE, "exec: plugin install failed", fs, 0, 0)
    ELSE IF o.fetch[1] # "good" THEN Result(FALSE, "exec: plugin install failed", fs, 0, 1)
    ELSE Result(TRUE, Nil, [fs EXCEPT !.plugins = @ \cup {pluginName}], 0, 0)

\* getInstallers: the registry, tool name -> installer
installers ==
    (n_jq :> "setupJq") @@ (n_igc :> "setupIgc") @@ (n_yq :> "setupYq")
    @@ (n_helm :> "setupHelm") @@ (n_argocd :> "setupArgoCD") @@ (n_rosa :> "setupRosa")
    @@ (n_kubeseal :> "setupKubeseal") @@ (n_oc :> "setupKube")
    @@ (n_kustomize :> "setupKustomize") @@ (n_ibmcloud :> "setupIBMCloud")
    @@ (n_ibmcloud_is :> "setupIBMCloudISPlugin") @@ (n_ibmcloud_ob :> "setupIBMCloudOBPlugin")
    @@ (n_ibmcloud_ks :> "setupIBMCloudKSPlugin") @@ (n_ibmcloud_cr :> "setupIBMCloudCRPlugin")
    @@ (n_gitu :> "setupGitu") @@ (n_gh :> "setupGh") @@ (n_glab :> "setupGlab")
    @@ (n_openshift_install :> "setupOpenShiftInstall") @@ (n_operator_sdk :> "setupOperatorSdk")

\* getDefaultVersions: "" for every tool but three
defaultVersions ==
    [k \in DOMAIN installers |->
        IF k = n_jq THEN <<"1", ".", "7", ".", "1">>
        ELSE IF k = n_igc THEN <<"1", ".", "5", "0", ".", "2">>
        ELSE IF k = n_gitu THEN <<"1", ".", "1", "5", ".", "0">>
        ELSE <<>>]

\* the call setupCli(ctx, destDir, envContext, version) of the installer found
setupCli(installer, cliName, fs, envPath, destDir, version, o) ==
    CASE installer \in {"setupJq", "setupIgc", "setupArgoCD", "setupGitu", "setupOperatorSdk"}
           -> setupBinaryTool(fs, envPath, destDir, cliName, version, installer # "setupJq", o)
      [] installer \in {"setupHelm", "setupRosa", "setupKustomize", "setupOpenShiftInstall",
                        "setupKubeseal", "setupGh", "setupGlab"}
           -> setupTgzTool(fs, envPath, destDir, cliName, version,
                           installer \in {"setupKubeseal", "setupGh", "setupGlab"}, o)
      [] installer = "setupYq" -> setupYq(fs, envPath, destDir, o)
      [] installer = "setupKube" -> setupKube(fs, envPath, destDir, o)
      [] installer = "setupIBMCloud" -> setupIBMCloud(fs, envPath, destDir, o)
      [] installer = "setupIBMCloudISPlugin"
           -> setupIBMCloudPlugin(fs, destDir, "infrastructure-service", o)
      [] installer = "setupIBMCloudOBPlugin"
           -> setupIBMCloudPlugin(fs, destDir, "observe-service", o)
      [] installer = "setupIBMCloudKSPlugin"
           -> setupIBMCloudPlugin(fs, destDir, "kubernetes-service", o)
      [] installer = "setupIBMCloudCRPlugin"
           -> setupIBMCloudPlugin(fs, destDir, "container-registry", o)

\* setupNamedCli, the name parsing that precedes the lock: the canonical name
\* (the lock key) and the version handed to the installer
\* a faulty name parsing, to test C14: the requested name is the lock key as it is
canonicalNameRaw(cliName) == cliName

canonicalName(cliName) ==
    LET name(match) == IF match # NoMatch THEN match[2] ELSE cliName
    IN  name(versionedInstallRe(cliName))

installVersion(cliName) ==
    LET version(match, name) ==
            IF match # NoMatch /\ Len(match[3]) # 0 THEN match[3]
            ELSE IF name \in DOMAIN defaultVersions THEN defaultVersions[name]
            ELSE <<>>
    IN  version(versionedInstallRe(cliName), canonicalName(cliName))

\* setupNamedCli, the section between Lock and Unlock: MkdirAll, the registry
\* lookup and the installer
installerBody(fs, envPath, destDir, cliName, version, o) ==
    LET made(fs1) ==
            IF cliName \notin DOMAIN installers
            THEN Result(FALSE, "unable to find installer for cli", fs1, 0, 0)
            ELSE setupCli(installers[cliName], cliName, fs1, envPath, destDir, version, o)
    IN  IF ~MkdirAllOk(destDir) THEN Result(FALSE, "unable to create directory", fs, 0, 0)
        ELSE made(MkdirAll(fs, destDir))

(***************************************************************************)
(* MutexKV (internal/mutex/mutex.go).  A per-key mutex is an object; the   *)
(* model numbers the objects in the order they are allocated.              *)
(***************************************************************************)
\* NewMutexKV: an empty store
NewMutexKV == [k \in {} |-> 0]

\* &sync.Mutex{}: an object distinct from every mutex of the store
NewMutex(st) ==
    LET ids == {st[k] : k \in DOMAIN st}
    IN  IF ids = {} THEN 1 ELSE 1 + CHOOSE m \in ids : \A n \in ids : n <= m

\* a faulty get, to test C1: a registry that allocates a new mutex on every get
getAlways(st, key) ==
    [k \in DOMAIN st \cup {key} |-> IF k = key THEN NewMutex(st) ELSE st[k]]

\* a faulty get, to test C33: a store that holds the mutex of one key at a time
getEvicting(st, key) ==
    IF key \in DOMAIN st THEN st ELSE [k \in {key} |-> NewMutex(st)]

\* get, between m.lock.Lock() and the deferred m.lock.Unlock(): the store after
\* the lookup-or-insert of key
get(st, key) ==
    IF key \in DOMAIN st THEN st
    ELSE [k \in DOMAIN st \cup {key} |-> IF k = key THEN NewMutex(st) ELSE st[k]]

\* a faulty get, to test C2: a get that returns without releasing the coarse lock
lockKept(p) == p

\* the holder of m.lock once get has returned to caller p: the deferred
\* m.lock.Unlock() has run
lockAfterGet(p) == 0

(***************************************************************************)
(* CliCheckDataSource.Read                                                 *)
(***************************************************************************)
defaultClis == <<n_yq, n_jq, n_igc, n_kubeseal, n_oc>>

\* a faulty merge, to test C5: a merge that puts the requested names before the defaults
requestedFirst(requested) == unique(requested \o defaultClis)

\* clis := unique(append(defaultClis, listTypeToStrings(data.Clis)...))
mergedClis(requested) == unique(defaultClis \o requested)

ClisPrefix == <<"c", "l", "i", "s", ":">>

\* "clis:" + strings.Join(clis[:], ":")
dataId(clis) == ClisPrefix \o Join(clis, Colon)

\* the outcomes of the outside world that use at most budget faults
Faulty(o) ==
    (IF o.lookup = "ok" THEN 0 ELSE 1) + (IF o.fetch[1] = "good" THEN 0 ELSE 1)
    + (IF o.fetch[2] = "good" THEN 0 ELSE 1) + (IF o.member THEN 0 ELSE 1)
OutcomesWithin(budget) == {o \in Outcomes : Faulty(o) <= budget}

(***************************************************************************)
(* State.                                                                  *)
(*   fs, PATH : the host's file system and the process environment         *)
(*   lock, store, locked : cliMutexKV (holder of the coarse lock or 0, the *)
(*       key -> mutex map, the mutexes that are locked)                    *)
(*   faults : outside faults met so far                                    *)
(*   config : per caller, the configuration of its data block              *)
(*   pc, left, frame : per caller, its position, the Read calls it still   *)
(*       makes, and the locals of Read / setupNamedCli; frame[p].held are  *)
(*       the keys for which p has returned from Lock with no Unlock of the *)
(*       key by any caller since, frame[p].cancelled is whether the        *)
(*       context of p's request has been cancelled, frame[p].installers is *)
(*       the map getInstallers returned to p, frame[p].put the next entry  *)
(*       p writes in getInstallers                                         *)
(*   registry : the package variable installers as SpecReg builds it: .ptr *)
(*       the map it refers to (0 is nil, p the map caller p made), .maps   *)
(*       the names each map holds, .read the maps a lookup has read and    *)
(*       .dirty whether a map was written after it was read                *)
(*   data, state, diags : per caller, the model Read builds, the state it  *)
(*       saved and the diagnostics of the response                         *)
(*   log : per caller, the outcome of every setupNamedCli call so far      *)
(*   tar : an archive handed to extractTarGz, the file system before the   *)
(*       call and what the call returned                                   *)
(*   envContext : the EnvContext of the provider, captured once            *)
(*   platform : the tool, OS token and architecture token of the download  *)
(*       address an installer built last                                   *)
(***************************************************************************)
VARIABLES fs, PATH, lock, store, locked, faults, config, pc, left, frame, data, state, diags, log,
          tar, registry, envContext, platform

vars == <<fs, PATH, lock, store, locked, faults, config, pc, left, frame, data, state, diags, log,
          tar, registry, envContext, platform>>

Procs == 1..NumProcs

EmptyFs == [dirs |-> {}, files |-> [q \in {} |-> NoFile], plugins |-> {}]
NoData == [Id |-> <<>>, BinDir |-> <<>>, Clis |-> <<>>]
NoFrame ==
    [run |-> 0, binDir |-> <<>>, clis |-> <<>>, idx |-> 0, cliPath |-> <<>>,
     cliName |-> <<>>, key |-> <<>>, version |-> <<>>, m |-> 0,
     pre |-> EmptyFs, res |-> Result(FALSE, Nil, EmptyFs, 0, 0),
     held |-> {}, cancelled |-> FALSE, installers |-> 0, put |-> 0]

\* the host of the model outside SpecPlatform, and no download address built
LinuxAmd64 ==
    [Arch |-> <<"a", "m", "d", "6", "4">>, Os |-> <<"l", "i", "n", "u", "x">>, Alpine |-> FALSE]
NoPlatform == [cliName |-> <<>>, osName |-> "", arch |-> ""]

\* var installers: nil. Outside SpecReg the registry is not built step by step:
\* installerBody reads the table a complete getInstallers leaves, installers
NoRegistry == [ptr |-> 0, maps |-> [q \in Procs |-> {}], read |-> {}, dirty |-> FALSE]

\* no archive: the state of tar outside the calls of extractTarGz
NoTar ==
    [entries |-> <<>>, pre |-> EmptyFs, done |-> FALSE,
     result |-> [fs |-> EmptyFs, err |-> Nil, writes |-> 0, read |-> 0]]

\* os.Exit (log.Fatal, or the runtime's fatal error): every goroutine ends
Exited == [q \in Procs |-> "exited"]

(***************************************************************************)
(* Actions of caller p.                                                    *)
(***************************************************************************)
\* Read up to os.Getenv("PATH") in addBinDirToPath
ReadStart(p) ==
    /\ pc[p] = "idle"
    /\ left[p] > 0
    /\ LET start(binDir, clis) ==
               /\ data' = [data EXCEPT ![p] = [Id |-> dataId(clis), BinDir |-> binDir,
                                                Clis |-> config[p].clis]]
               /\ frame' = [frame EXCEPT ![p].run = @ + 1, ![p].binDir = binDir,
                                         ![p].clis = clis, ![p].idx = 1, ![p].cliPath = PATH,
                                         ![p].cancelled = FALSE]
               /\ pc' = [pc EXCEPT ![p] = IF Len(binDir) = 0 THEN "loop" ELSE "setenv"]
       IN  start(first(<<config[p].bin_dir, config[p].provider_bin_dir>>),
                 mergedClis(config[p].clis))
    /\ diags' = [diags EXCEPT ![p] = <<>>]
    /\ UNCHANGED <<envContext, platform, registry, fs, PATH, lock, store, locked, faults, config, left, state, log, tar>>

\* addBinDirToPath: os.Setenv("PATH", binDir + ":" + cliPath)
Setenv(p) ==
    /\ pc[p] = "setenv"
    /\ PATH' = Abs(frame[p].binDir) \o Colon \o frame[p].cliPath
    /\ pc' = [pc EXCEPT ![p] = "loop"]
    /\ UNCHANGED <<envContext, platform, registry, fs, lock, store, locked, faults, config, left, frame, data, state,
                   diags, log, tar>>

\* the entry added to log and diagnostics when setupNamedCli returns
Outcome(f, r, before) ==
    [run |-> f.run, name |-> f.cliName, key |-> f.key, changed |-> r.changed,
     err |-> r.err, net |-> r.net, wrote |-> r.fs # before]

\* a faulty loop, to test C34: a loop of Read that takes the names of the final
\* list from its end
SetupNamedCliBackwards(p) ==
    /\ pc[p] = "loop"
    /\ frame[p].idx <= Len(frame[p].clis)
    /\ LET skip(cliName) ==
               /\ frame' = [frame EXCEPT ![p].cliName = cliName, ![p].key = cliName,
                                         ![p].version = <<>>, ![p].idx = @ + 1]
               /\ log' = [log EXCEPT ![p] = Append(@, Outcome([frame[p] EXCEPT !.cliName = cliName,
                                                                               !.key = cliName],
                                                              Result(FALSE, Nil, fs, 0, 0), fs))]
               /\ pc' = pc
           enter(cliName) ==
               /\ frame' = [frame EXCEPT ![p].cliName = cliName, ![p].key = canonicalName(cliName),
                                         ![p].version = installVersion(cliName)]
               /\ log' = log
               /\ pc' = [pc EXCEPT ![p] = "lock_get"]
           call(cliName) == IF cliName = n_kubectl THEN skip(cliName) ELSE enter(cliName)
       IN  call(frame[p].clis[Len(frame[p].clis) + 1 - frame[p].idx])
    /\ UNCHANGED <<envContext, platform, registry, fs, PATH, lock, store, locked, faults, config, left, data, state,
                   diags, tar>>

\* setupNamedCli up to the call of cliMutexKV.Lock; "kubectl" returns at once
SetupNamedCli(p) ==
    /\ pc[p] = "loop"
    /\ frame[p].idx <= Len(frame[p].clis)
    /\ LET skip(cliName) ==
               /\ frame' = [frame EXCEPT ![p].cliName = cliName, ![p].key = cliName,
                                         ![p].version = <<>>, ![p].idx = @ + 1]
               /\ log' = [log EXCEPT ![p] = Append(@, Outcome([frame[p] EXCEPT !.cliName = cliName,
                                                                               !.key = cliName],
                                                              Result(FALSE, Nil, fs, 0, 0), fs))]
               /\ pc' = pc
           enter(cliName) ==
               /\ frame' = [frame EXCEPT ![p].cliName = cliName, ![p].key = canonicalName(cliName),
                                         ![p].version = installVersion(cliName)]
               /\ log' = log
               /\ pc' = [pc EXCEPT ![p] = "lock_get"]
           call(cliName) == IF cliName = n_kubectl THEN skip(cliName) ELSE enter(cliName)
       IN  call(frame[p].clis[frame[p].idx])
    /\ UNCHANGED <<envContext, platform, registry, fs, PATH, lock, store, locked, faults, config, left, data, state,
                   diags, tar>>

\* MutexKV.Lock, get: m.lock.Lock()
LockGet(p) ==
    /\ pc[p] = "lock_get"
    /\ lock = 0
    /\ lock' = p
    /\ pc' = [pc EXCEPT ![p] = "lock_lookup"]
    /\ UNCHANGED <<envContext, platform, registry, fs, PATH, store, locked, faults, config, left, frame, data, state,
                   diags, log, tar>>

\* MutexKV.Lock, get: lookup-or-insert and return
LockLookup(p) ==
    /\ pc[p] = "lock_lookup"
    /\ store' = get(store, frame[p].key)
    /\ frame' = [frame EXCEPT ![p].m = store'[frame[p].key]]
    /\ lock' = lockAfterGet(p)
    /\ pc' = [pc EXCEPT ![p] = "lock_mutex"]
    /\ UNCHANGED <<envContext, platform, registry, fs, PATH, locked, faults, config, left, data, state, diags, log, tar>>

\* a faulty Lock, to test C25: a re-entrant mutex, which the caller that holds
\* the key may lock again
LockMutexReentrant(p) ==
    /\ pc[p] = "lock_mutex"
    /\ frame[p].m \notin locked \/ frame[p].key \in frame[p].held
    /\ locked' = locked \cup {frame[p].m}
    /\ frame' = [frame EXCEPT ![p].held = @ \cup {frame[p].key}]
    /\ pc' = [pc EXCEPT ![p] = "body"]
    /\ UNCHANGED <<envContext, platform, registry, fs, PATH, lock, store, faults, config, left, data, state, diags, log,
                   tar>>

\* MutexKV.Lock: sync.Mutex.Lock of the mutex get returned
LockMutex(p) ==
    /\ pc[p] = "lock_mutex"
    /\ frame[p].m \notin locked
    /\ locked' = locked \cup {frame[p].m}
    /\ frame' = [frame EXCEPT ![p].held = @ \cup {frame[p].key}]
    /\ pc' = [pc EXCEPT ![p] = "body"]
    /\ UNCHANGED <<envContext, platform, registry, fs, PATH, lock, store, faults, config, left, data, state, diags, log,
                   tar>>

\* a faulty setupNamedCli, to test C31: the Unlock is not deferred, and the
\* return paths that carry an error return without it
BodyUnlockOnSuccess(p) ==
    /\ pc[p] = "body"
    /\ \E o \in OutcomesWithin(MaxFaults - faults) :
         LET return(r) ==
                 /\ fs' = r.fs
                 /\ faults' = faults + r.used
                 /\ IF r.err \in {Nil, Fatal}
                    THEN /\ frame' = [frame EXCEPT ![p].pre = fs, ![p].res = r]
                         /\ pc' = IF r.err = Fatal THEN Exited
                                  ELSE [pc EXCEPT ![p] = "unlock_get"]
                         /\ UNCHANGED <<log, diags>>
                    ELSE /\ frame' = [frame EXCEPT ![p].idx = @ + 1]
                         /\ log' = [log EXCEPT ![p] = Append(@, Outcome(frame[p], r, fs))]
                         /\ diags' = [diags EXCEPT ![p] = Append(@, r.err)]
                         /\ pc' = [pc EXCEPT ![p] = "loop"]
         IN  return(installerBody(fs, PATH, frame[p].binDir, frame[p].key, frame[p].version, o))
    /\ UNCHANGED <<envContext, platform, registry, PATH, lock, store, locked, config, left, data, state, tar>>

\* setupNamedCli between Lock and Unlock
Body(p) ==
    /\ pc[p] = "body"
    /\ \E o \in OutcomesWithin(MaxFaults - faults) :
         LET return(r) ==
                 /\ fs' = r.fs
                 /\ faults' = faults + r.used
                 /\ frame' = [frame EXCEPT ![p].pre = fs, ![p].res = r]
                 /\ pc' = IF r.err = Fatal THEN Exited ELSE [pc EXCEPT ![p] = "unlock_get"]
         IN  return(installerBody(fs, PATH, frame[p].binDir, frame[p].key, frame[p].version, o))
    /\ UNCHANGED <<envContext, platform, registry, PATH, lock, store, locked, config, left, data, state, diags, log, tar>>

\* MutexKV.Unlock (deferred), get: m.lock.Lock()
UnlockGet(p) ==
    /\ pc[p] = "unlock_get"
    /\ lock = 0
    /\ lock' = p
    /\ pc' = [pc EXCEPT ![p] = "unlock_lookup"]
    /\ UNCHANGED <<envContext, platform, registry, fs, PATH, store, locked, faults, config, left, frame, data, state,
                   diags, log, tar>>

\* a faulty get, to test C32: the get of Unlock returns without releasing the
\* coarse lock
UnlockLookupKeepsLock(p) ==
    /\ pc[p] = "unlock_lookup"
    /\ store' = get(store, frame[p].key)
    /\ frame' = [frame EXCEPT ![p].m = store'[frame[p].key]]
    /\ pc' = [pc EXCEPT ![p] = "unlock_mutex"]
    /\ UNCHANGED <<envContext, platform, registry, fs, PATH, lock, locked, faults, config, left, data, state, diags,
                   log, tar>>

\* MutexKV.Unlock, get: lookup-or-insert and return
UnlockLookup(p) ==
    /\ pc[p] = "unlock_lookup"
    /\ store' = get(store, frame[p].key)
    /\ frame' = [frame EXCEPT ![p].m = store'[frame[p].key]]
    /\ lock' = lockAfterGet(p)
    /\ pc' = [pc EXCEPT ![p] = "unlock_mutex"]
    /\ UNCHANGED <<envContext, platform, registry, fs, PATH, locked, faults, config, left, data, state, diags, log, tar>>

\* a faulty Unlock, to test C24: setupNamedCli returns to the loop of Read with
\* the mutex of its key still locked
UnlockMutexSkipped(p) ==
    /\ pc[p] = "unlock_mutex"
    /\ log' = [log EXCEPT ![p] = Append(@, Outcome(frame[p], frame[p].res, frame[p].pre))]
    /\ diags' = [diags EXCEPT ![p] = IF frame[p].res.err # Nil
                                     THEN Append(@, frame[p].res.err) ELSE @]
    /\ frame' = [frame EXCEPT ![p].idx = @ + 1, ![p].pre = NoFrame.pre, ![p].res = NoFrame.res]
    /\ pc' = [pc EXCEPT ![p] = "loop"]
    /\ UNCHANGED <<envContext, platform, registry, fs, PATH, lock, store, locked, faults, config, left, data, state, tar>>

\* the frames after an Unlock of key by caller p has released the mutex
Released(p, key) ==
    [q \in Procs |->
        IF q = p
        THEN [frame[q] EXCEPT !.idx = @ + 1, !.pre = NoFrame.pre, !.res = NoFrame.res,
                              !.held = @ \ {key}]
        ELSE [frame[q] EXCEPT !.held = @ \ {key}]]

\* MutexKV.Unlock: sync.Mutex.Unlock (a fatal error of the runtime when the
\* mutex is not locked), then setupNamedCli returns to the loop of Read
UnlockMutex(p) ==
    /\ pc[p] = "unlock_mutex"
    /\ IF frame[p].m \in locked
       THEN /\ locked' = locked \ {frame[p].m}
            /\ log' = [log EXCEPT ![p] = Append(@, Outcome(frame[p], frame[p].res, frame[p].pre))]
            /\ diags' = [diags EXCEPT ![p] = IF frame[p].res.err # Nil
                                             THEN Append(@, frame[p].res.err) ELSE @]
            /\ frame' = Released(p, frame[p].key)
            /\ pc' = [pc EXCEPT ![p] = "loop"]
       ELSE /\ pc' = Exited
            /\ UNCHANGED <<locked, log, diags, frame>>
    /\ UNCHANGED <<envContext, platform, registry, fs, PATH, lock, store, faults, config, left, data, state, tar>>

\* Read after the loop: resp.State.Set(ctx, &data)
ReadReturn(p) ==
    /\ pc[p] = "loop"
    /\ frame[p].idx > Len(frame[p].clis)
    /\ state' = [state EXCEPT ![p] = data[p]]
    /\ left' = [left EXCEPT ![p] = @ - 1]
    /\ pc' = [pc EXCEPT ![p] = "idle"]
    /\ UNCHANGED <<envContext, platform, registry, fs, PATH, lock, store, locked, faults, config, frame, data, diags, log,
                   tar>>

\* extractTarGz(ctx, resp.Body, "helm", "/d", "helm") of the archive tar.entries
ExtractTarGz ==
    /\ ~tar.done
    /\ LET walked(w) ==
               /\ fs' = w.fs
               /\ tar' = [tar EXCEPT !.done = TRUE, !.result = w]
       IN  walked(extractTarGz(fs, tar.entries, n_helm, <<"/", "d">>, n_helm))
    /\ UNCHANGED <<envContext, platform, registry, PATH, lock, store, locked, faults, config, pc, left, frame, data, state, diags,
                   log>>

\* the steps of caller p in addBinDirToPath and in MutexKV
Protocol(p) ==
    \/ Setenv(p)
    \/ LockGet(p)
    \/ LockLookup(p)
    \/ LockMutex(p)
    \/ UnlockGet(p)
    \/ UnlockLookup(p)
    \/ UnlockMutex(p)

\* the steps of caller p in Read, in setupNamedCli before Lock and in the
\* installers: none of them waits for another caller
Computation(p) ==
    \/ ReadStart(p)
    \/ SetupNamedCli(p)
    \/ Body(p)
    \/ ReadReturn(p)

\* caller p is at a position of Computation(p)
Computing(p) == pc[p] \in {"loop", "body"} \/ (pc[p] = "idle" /\ left[p] > 0)

\* the steps of caller p
Step(p) == Protocol(p) \/ Computation(p)

Next == \E p \in Procs : Step(p)

(***************************************************************************)
(* Initial states.                                                         *)
(***************************************************************************)
d_abs == <<"/", "d">>
d_rel == <<"d">>
n_foo == <<"f", "o", "o">>
n_helm_4 == n_helm \o <<"-", "4", ".", "0">>

jqOld == <<"j", "q", "-", "1", ".", "6">>
jqNew == <<"j", "q", "-", "1", ".", "7", ".", "1">>
helmOld == <<"v", "3", ".", "8", ".", "2">>
yqNew == <<"y", "q", " ", "4", ".", "4", "0", ".", "5">>
jqBare == <<"j", "q">>
helmBare == <<"v", "3">>

\* hosts: nothing installed; an old jq and an old helm; a current jq and yq 4;
\* a jq that prints no version number; yq 3 and a helm that prints "v3"
HostFiles(entries) ==
    [q \in {PathJoin(SysDir, e[1]) : e \in entries} |->
        LET e == CHOOSE x \in entries : PathJoin(SysDir, x[1]) = q IN File(e[2], TRUE)]
Hosts ==
    {[EmptyFs EXCEPT !.files = HostFiles(entries)] :
        entries \in {{}, {<<n_jq, jqOld>>, <<n_helm, helmOld>>}, {<<n_jq, jqNew>>, <<n_yq, yqNew>>},
                     {<<n_jq, jqBare>>}, {<<n_yq, yq3Out>>, <<n_helm, helmBare>>}}}

Config(bin_dir, provider_bin_dir, clis) ==
    [bin_dir |-> bin_dir, provider_bin_dir |-> provider_bin_dir, clis |-> clis]

BinDirs == {<<d_abs, <<>>>>, <<d_rel, <<>>>>, <<<<>>, d_abs>>, <<<<>>, <<>>>>}
Requests ==
    {<<>>, <<n_jq, n_kubectl>>, <<n_foo, n_helm_4>>, <<n_helm_4>>, <<n_ibmcloud, n_ibmcloud_is>>}
Configs == {Config(b[1], b[2], c) : b \in BinDirs, c \in Requests}

InitCommon ==
    /\ PATH = SysDir
    /\ lock = 0
    /\ store = NewMutexKV
    /\ locked = {}
    /\ pc = [p \in Procs |-> "idle"]
    /\ frame = [p \in Procs |-> NoFrame]
    /\ data = [p \in Procs |-> NoData]
    /\ state = [p \in Procs |-> NoData]
    /\ diags = [p \in Procs |-> <<>>]
    /\ log = [p \in Procs |-> <<>>]
    /\ registry = NoRegistry
    /\ envContext = LinuxAmd64
    /\ platform = NoPlatform

\* one caller that runs Read MaxRuns times on any host, with any configuration
Init ==
    /\ InitCommon
    /\ fs \in Hosts
    /\ faults = 0
    /\ tar = NoTar
    /\ \E c \in Configs : config = [p \in Procs |-> c]
    /\ left = [p \in Procs |-> IF p = 1 THEN MaxRuns ELSE 0]

Spec == Init /\ [][Next]_vars

\* NumProcs concurrent Read calls of one provider process on an empty host, the
\* outside world without faults
LockRequests == {<<n_helm>>, <<n_helm_4>>}
InitLock ==
    /\ InitCommon
    /\ fs = EmptyFs
    /\ faults = MaxFaults
    /\ tar = NoTar
    /\ config \in [Procs -> {Config(d_abs, <<>>, c) : c \in LockRequests}]
    /\ left = [p \in Procs |-> 1]

SpecLock == InitLock /\ [][Next]_vars

\* SpecLock with the scheduling of the Go runtime: a goroutine that can run does
\* run, and the installer bodies terminate. A caller is at one position at a
\* time, so that the weak fairness of its steps together is that of each step;
\* a caller that waits for a lock can run once the lock stays free. The steps
\* of Computation(p) are enabled exactly when Computing(p) holds and leave it
\* after at most Len(clis) steps: their weak fairness is that the caller does
\* not stay at these positions forever
Fairness == \A p \in Procs : WF_vars(Protocol(p)) /\ []<>~Computing(p)

SpecLive == InitLock /\ [][Next]_vars /\ Fairness

n_openshift_install_4_10 == n_openshift_install \o <<"-", "4", ".", "1", "0">>
n_jq_1_6 == n_jq \o <<"-", "1", ".", "6">>
\* two concurrent Read calls on an empty host that request a tool with and
\* without a version, the outside world without faults
KeyRequests == <<<<n_jq_1_6, n_openshift_install>>, <<n_openshift_install_4_10>>>>
InitKey ==
    /\ InitCommon
    /\ fs = EmptyFs
    /\ faults = MaxFaults
    /\ tar = NoTar
    /\ \E b \in {d_abs, d_rel} :
         config = [p \in Procs |-> Config(b, <<>>, KeyRequests[((p - 1) % 2) + 1])]
    /\ left = [p \in Procs |-> IF p <= 2 THEN 1 ELSE 0]

SpecKey == InitKey /\ [][Next]_vars

\* two concurrent Read calls with different destination directories, of which
\* one may be relative, on an empty host, the outside world without faults
d_other == <<"/", "e">>
PathDirs == <<{d_abs, d_rel}, {d_other}>>
InitPath ==
    /\ InitCommon
    /\ fs = EmptyFs
    /\ faults = MaxFaults
    /\ tar = NoTar
    /\ \E a \in PathDirs[1], b \in PathDirs[2] :
         config = [p \in Procs |-> Config(IF p % 2 = 1 THEN a ELSE b, <<>>, <<>>)]
    /\ left = [p \in Procs |-> IF p <= 2 THEN 1 ELSE 0]

SpecPath == InitPath /\ [][Next]_vars

\* one Read call for every requested list of at most MaxReq names
ReadNames ==
    {n_jq, n_oc, n_helm, n_foo, n_kubectl, n_helm_4, n_openshift_install_4_10, n_operator_sdk,
     n_ibmcloud_is, n_jq_1_6}
RECURSIVE SeqsUpTo(_, _)
SeqsUpTo(S, n) ==
    IF n = 0 THEN {<<>>}
    ELSE LET shorter == SeqsUpTo(S, n - 1)
         IN  shorter \cup {Append(s, x) : s \in {t \in shorter : Len(t) = n - 1}, x \in S}
InitRead ==
    /\ InitCommon
    /\ fs = EmptyFs
    /\ faults = MaxFaults
    /\ tar = NoTar
    /\ \E c \in SeqsUpTo(ReadNames, MaxReq) : config = [p \in Procs |-> Config(d_abs, <<>>, c)]
    /\ left = [p \in Procs |-> IF p = 1 THEN 1 ELSE 0]

SpecRead == InitRead /\ [][Next]_vars

\* one call of extractTarGz for every archive of at most MaxEntries entries, the
\* destination file absent or present before the call
TarEntries ==
    {TarEntry("tar.TypeDir", n_helm, NoFile),
     TarEntry("tar.TypeReg", n_helm, File(ReleaseTag, TRUE)),
     TarEntry("tar.TypeReg", n_helm, File(helmOld, TRUE)),
     TarEntry("tar.TypeReg", n_readme, File(ReleaseTag, TRUE)),
     TarEntry("tar.TypeSymlink", n_helm, NoFile),
     TarEntry("tar.ErrHeader", <<>>, NoFile)}
TarHosts ==
    {MkdirAll(EmptyFs, d_abs),
     WriteFile(MkdirAll(EmptyFs, d_abs), PathJoin(d_abs, n_helm), File(yqNew, TRUE))}
InitTar ==
    /\ InitCommon
    /\ fs \in TarHosts
    /\ faults = 0
    /\ config = [p \in Procs |-> Config(d_abs, <<>>, <<>>)]
    /\ left = [p \in Procs |-> 0]
    /\ \E a \in SeqsUpTo(TarEntries, MaxEntries) :
         tar = [entries |-> a, pre |-> fs, done |-> FALSE, result |-> NoTar.result]

NextTar == ExtractTarGz

SpecTar == InitTar /\ [][NextTar]_vars

(***************************************************************************)
(* The clients of one MutexKV: NumProcs goroutines that call Lock and      *)
(* Unlock on any key and in any order, the first MaxCalls times and the    *)
(* others once. Between two calls a client is at "idle" (no call made),    *)
(* "body" (Lock has returned) or "loop" (Unlock has returned).             *)
(***************************************************************************)
Keys == {n_helm, n_jq}
Between(p) == pc[p] \in {"idle", "body", "loop"}

\* caller p calls m.Lock(key)
ClientLock(p) ==
    /\ Between(p)
    /\ left[p] > 0
    /\ \E key \in Keys : frame' = [frame EXCEPT ![p].cliName = key, ![p].key = key]
    /\ left' = [left EXCEPT ![p] = @ - 1]
    /\ pc' = [pc EXCEPT ![p] = "lock_get"]
    /\ UNCHANGED <<envContext, platform, registry, fs, PATH, lock, store, locked, faults, config, data, state, diags, log,
                   tar>>

\* caller p calls m.Unlock(key)
ClientUnlock(p) ==
    /\ Between(p)
    /\ left[p] > 0
    /\ \E key \in Keys : frame' = [frame EXCEPT ![p].cliName = key, ![p].key = key]
    /\ left' = [left EXCEPT ![p] = @ - 1]
    /\ pc' = [pc EXCEPT ![p] = "unlock_get"]
    /\ UNCHANGED <<envContext, platform, registry, fs, PATH, lock, store, locked, faults, config, data, state, diags, log,
                   tar>>

NextKV ==
    \E p \in Procs :
        \/ ClientLock(p)
        \/ ClientUnlock(p)
        \/ LockGet(p)
        \/ LockLookup(p)
        \/ LockMutex(p)
        \/ UnlockGet(p)
        \/ UnlockLookup(p)
        \/ UnlockMutex(p)

InitKV ==
    /\ InitCommon
    /\ fs = EmptyFs
    /\ faults = 0
    /\ tar = NoTar
    /\ config = [p \in Procs |-> Config(d_abs, <<>>, <<>>)]
    /\ left = [p \in Procs |-> IF p = 1 THEN MaxCalls ELSE 1]

SpecKV == InitKV /\ [][NextKV]_vars

(***************************************************************************)
(* Cancellation. Read receives the context of the request; the framework   *)
(* cancels it when the client gives up or the deadline passes. Read hands  *)
(* ctx to setupNamedCli and the installers, which use it for tflog only:   *)
(* no request is built with it, no command is started with it and no step  *)
(* reads ctx.Done() or ctx.Err(), so a cancellation changes no step of p.  *)
(***************************************************************************)
\* the context of the Read call of caller p is cancelled
Cancel(p) ==
    /\ pc[p] \notin {"idle", "exited"}
    /\ ~frame[p].cancelled
    /\ frame' = [frame EXCEPT ![p].cancelled = TRUE]
    /\ UNCHANGED <<envContext, platform, registry, fs, PATH, lock, store, locked, faults, config, pc, left, data, state, diags,
                   log, tar>>

NextCancel ==
    \/ Next
    \/ \E p \in Procs : Cancel(p)

\* one Read call of the default tools on any host, the outside world without
\* faults, the context cancelled at any moment of the call or never
InitCancel ==
    /\ InitCommon
    /\ fs \in Hosts
    /\ faults = MaxFaults
    /\ tar = NoTar
    /\ config = [p \in Procs |-> Config(d_abs, <<>>, <<>>)]
    /\ left = [p \in Procs |-> IF p = 1 THEN 1 ELSE 0]

SpecCancel == InitCancel /\ [][NextCancel]_vars

(***************************************************************************)
(* The lazy registry. NumProcs goroutines call setupNamedCli once each, as *)
(* the concurrent Read calls of one provider process do, the first of them *)
(* with installers = nil. getInstallers takes no lock: it tests the        *)
(* package variable, assigns it the new map and then writes the entries    *)
(* one by one into the map the variable refers to.                         *)
(***************************************************************************)
\* getInstallers: the names in the order of the assignments
installerOrder ==
    <<n_jq, n_igc, n_yq, n_helm, n_argocd, n_rosa, n_kubeseal, n_oc, n_kustomize, n_ibmcloud,
      n_ibmcloud_is, n_ibmcloud_ob, n_ibmcloud_ks, n_ibmcloud_cr, n_gitu, n_gh, n_glab,
      n_openshift_install, n_operator_sdk>>

RegCalls == {n_yq, n_operator_sdk}

\* the call setupNamedCli(cliName, ctx, "/d", envContext)
CallSetupNamedCli(p) ==
    /\ pc[p] = "idle"
    /\ left[p] > 0
    /\ \E cliName \in RegCalls :
         frame' = [frame EXCEPT ![p].cliName = cliName, ![p].key = canonicalName(cliName),
                                ![p].version = installVersion(cliName), ![p].binDir = d_abs]
    /\ left' = [left EXCEPT ![p] = @ - 1]
    /\ pc' = [pc EXCEPT ![p] = "get_installers"]
    /\ UNCHANGED <<envContext, platform, fs, PATH, lock, store, locked, faults, config, data, state, diags, log, tar,
                   registry>>

\* getInstallers: if installers != nil { return installers }
GetInstallersCheck(p) ==
    /\ pc[p] = "get_installers"
    /\ IF registry.ptr # 0
       THEN /\ frame' = [frame EXCEPT ![p].installers = registry.ptr]
            /\ pc' = [pc EXCEPT ![p] = "lock_get"]
       ELSE /\ frame' = frame
            /\ pc' = [pc EXCEPT ![p] = "make"]
    /\ UNCHANGED <<envContext, platform, fs, PATH, lock, store, locked, faults, config, left, data, state, diags, log,
                   tar, registry>>

\* getInstallers: installers = make(map[string]func(...))
GetInstallersMake(p) ==
    /\ pc[p] = "make"
    /\ registry' = [registry EXCEPT !.ptr = p, !.maps[p] = {}]
    /\ frame' = [frame EXCEPT ![p].put = 1]
    /\ pc' = [pc EXCEPT ![p] = "put"]
    /\ UNCHANGED <<envContext, platform, fs, PATH, lock, store, locked, faults, config, left, data, state, diags, log,
                   tar>>

\* getInstallers: installers[name] = setupX, the next assignment. It writes the
\* map the package variable refers to now. A write while another goroutine is
\* writing the same map is a data race: the runtime may stop the process
\* ("concurrent map writes") or let the write through
GetInstallersPut(p) ==
    /\ pc[p] = "put"
    /\ frame[p].put <= Len(installerOrder)
    /\ \/ /\ registry' = [registry EXCEPT
                              !.maps[registry.ptr] = @ \cup {installerOrder[frame[p].put]},
                              !.dirty = @ \/ registry.ptr \in registry.read]
          /\ frame' = [frame EXCEPT ![p].put = @ + 1]
          /\ pc' = pc
       \/ /\ \E q \in Procs \ {p} : pc[q] = "put"
          /\ pc' = Exited
          /\ UNCHANGED <<registry, frame>>
    /\ UNCHANGED <<envContext, platform, fs, PATH, lock, store, locked, faults, config, left, data, state, diags, log,
                   tar>>

\* getInstallers: return installers
GetInstallersReturn(p) ==
    /\ pc[p] = "put"
    /\ frame[p].put > Len(installerOrder)
    /\ frame' = [frame EXCEPT ![p].installers = registry.ptr]
    /\ pc' = [pc EXCEPT ![p] = "lock_get"]
    /\ UNCHANGED <<envContext, platform, fs, PATH, lock, store, locked, faults, config, left, data, state, diags, log,
                   tar, registry>>

\* setupNamedCli between Lock and Unlock, the outside world without faults:
\* MkdirAll, setupCli := installers[cliName] in the map getInstallers returned,
\* and the installer found. A lookup while another goroutine is writing the
\* map is a data race: the runtime may stop the process ("concurrent map read
\* and map write") or let the lookup read what the map holds
InstallerLookup(p) ==
    /\ pc[p] = "body"
    /\ \/ LET return(r) ==
                  /\ fs' = r.fs
                  /\ frame' = [frame EXCEPT ![p].pre = fs, ![p].res = r]
                  /\ registry' = [registry EXCEPT !.read = @ \cup {frame[p].installers}]
                  /\ pc' = IF r.err = Fatal THEN Exited ELSE [pc EXCEPT ![p] = "unlock_get"]
              \* installers[cliName] is nil for a name the map does not hold (yet),
              \* as it is for a name that is not registered
              cliName == IF frame[p].key \in registry.maps[frame[p].installers]
                         THEN frame[p].key ELSE n_foo
          IN  return(installerBody(fs, PATH, frame[p].binDir, cliName, frame[p].version, AllGood))
       \/ /\ \E q \in Procs \ {p} : pc[q] = "put" /\ registry.ptr = frame[p].installers
          /\ pc' = Exited
          /\ UNCHANGED <<fs, frame, registry>>
    /\ UNCHANGED <<envContext, platform, PATH, lock, store, locked, faults, config, left, data, state, diags, log, tar>>

NextReg ==
    \E p \in Procs :
        \/ CallSetupNamedCli(p)
        \/ GetInstallersCheck(p)
        \/ GetInstallersMake(p)
        \/ GetInstallersPut(p)
        \/ GetInstallersReturn(p)
        \/ LockGet(p)
        \/ LockLookup(p)
        \/ LockMutex(p)
        \/ InstallerLookup(p)
        \/ UnlockGet(p)
        \/ UnlockLookup(p)
        \/ UnlockMutex(p)

InitReg ==
    /\ InitCommon
    /\ fs = EmptyFs
    /\ faults = MaxFaults
    /\ tar = NoTar
    /\ config = [p \in Procs |-> Config(d_abs, <<>>, <<>>)]
    /\ left = [p \in Procs |-> 1]

SpecReg == InitReg /\ [][NextReg]_vars

(***************************************************************************)
(* Platform resolution. Every installer that downloads for a platform      *)
(* turns the EnvContext into the OS and architecture tokens of its         *)
(* download address.                                                       *)
(***************************************************************************)
s_arm == <<"a", "r", "m">>
s_darwin == <<"d", "a", "r", "w", "i", "n">>

\* regexp.MatchString of an expression that is a literal, anchored at the start
\* of the text (^literal) or not: the positions a match may start at
MatchLiteral(literal, anchored, s) ==
    \E i \in 1..(IF anchored THEN 1 ELSE Len(s)) :
        /\ i + Len(literal) - 1 <= Len(s)
        /\ SubSeq(s, i, i + Len(literal) - 1) = literal

\* var armArch = regexp.MustCompile(`^arm`), without the anchor
isArmArchUnanchored(c) == MatchLiteral(s_arm, FALSE, c.Arch)

\* EnvContext.isArmArch: armArch.MatchString(c.Arch), armArch = `^arm`
isArmArch(c) == MatchLiteral(s_arm, TRUE, c.Arch)

\* EnvContext.isMacOs: macos.MatchString(c.Os), macos = `darwin`
isMacOs(c) == MatchLiteral(s_darwin, FALSE, c.Os)

\* EnvContext.isAlpine
isAlpine(c) == c.Alpine

\* the tools whose installer reads the EnvContext
PlatformTools ==
    {n_jq, n_igc, n_yq3, n_yq4, n_helm, n_argocd, n_rosa, n_kubeseal, n_oc, n_kubectl,
     n_kustomize, n_gitu, n_gh, n_glab, n_openshift_install, n_ibmcloud, n_operator_sdk}

\* the osName and arch (for jq the two parts of filename, for ibmcloud osName
\* alone) the installer of cliName puts in its download address
platformTokens(cliName, c) ==
    LET pick(mac, linux, arm, other) ==
            [cliName |-> cliName,
             osName |-> IF isMacOs(c) THEN mac ELSE linux,
             arch |-> IF isArmArch(c) THEN arm ELSE other]
        alpine(mac, alp, linux, arm, other) ==
            [cliName |-> cliName,
             osName |-> IF isMacOs(c) THEN mac ELSE IF isAlpine(c) THEN alp ELSE linux,
             arch |-> IF isArmArch(c) THEN arm ELSE other]
    IN  CASE cliName = n_jq -> pick("jq-macos", "jq-linux", "-arm64", "-amd64")
          [] cliName \in {n_igc, n_gitu} -> alpine("macos", "alpine", "linux", "arm64", "x64")
          [] cliName = n_rosa -> pick("macosx", "linux", "arm64", "amd64")
          [] cliName \in {n_oc, n_openshift_install} -> pick("mac", "linux", "arm64", "amd64")
          [] cliName = n_gh -> pick("macOS", "linux", "arm64", "amd64")
          [] cliName = n_glab -> pick("macOS", "Linux", "arm64", "x86_64")
          [] cliName = n_ibmcloud ->
                [cliName |-> cliName,
                 osName |-> IF isMacOs(c)
                            THEN IF isArmArch(c) THEN "macos_arm64" ELSE "macos"
                            ELSE IF isArmArch(c) THEN "linux_arm64" ELSE "linux_amd64",
                 arch |-> ""]
          [] OTHER -> pick("darwin", "linux", "arm64", "amd64")

\* the architecture and OS strings and the Alpine flags a host may report
Archs ==
    {<<>>, s_arm, s_arm \o <<"6", "4">>, s_arm \o <<"v", "7">>, <<"a", "m", "d", "6", "4">>,
     <<"a", "a", "r", "c", "h", "6", "4">>, <<"x", "a", "r", "m">>, <<"A", "R", "M">>, <<"a", "r">>}
Oses ==
    {<<>>, <<"l", "i", "n", "u", "x">>, s_darwin, s_darwin \o <<"2", "1">>,
     <<"x", "-">> \o s_darwin, <<"w", "i", "n", "d", "o", "w", "s">>, <<"D", "a", "r", "w", "i", "n">>,
     <<"d", "a", "r", "w", "i">>}
EnvContexts == [Arch : Archs, Os : Oses, Alpine : BOOLEAN]

\* an installer of a tool builds its download address
BuildUrl(cliName) ==
    /\ platform' = platformTokens(cliName, envContext)
    /\ UNCHANGED <<fs, PATH, lock, store, locked, faults, config, pc, left, frame, data, state,
                   diags, log, tar, registry, envContext>>

NextPlatform == \E cliName \in PlatformTools : BuildUrl(cliName)

InitPlatform ==
    /\ PATH = SysDir
    /\ lock = 0
    /\ store = NewMutexKV
    /\ locked = {}
    /\ pc = [p \in Procs |-> "idle"]
    /\ frame = [p \in Procs |-> NoFrame]
    /\ data = [p \in Procs |-> NoData]
    /\ state = [p \in Procs |-> NoData]
    /\ diags = [p \in Procs |-> <<>>]
    /\ log = [p \in Procs |-> <<>>]
    /\ registry = NoRegistry
    /\ fs = EmptyFs
    /\ faults = 0
    /\ tar = NoTar
    /\ config = [p \in Procs |-> Config(d_abs, <<>>, <<>>)]
    /\ left = [p \in Procs |-> 0]
    /\ envContext \in EnvContexts
    /\ platform = NoPlatform

SpecPlatform == InitPlatform /\ [][NextPlatform]_vars

(***************************************************************************)
(* Vocabulary of the properties.                                           *)
(***************************************************************************)
Elems(s) == {s[i] : i \in 1..Len(s)}

\* caller p has returned from Lock and not yet run the installer body
InBody(p) == pc[p] = "body"

\* caller p has returned from Lock and the per-key mutex is not yet released
Holds(p) == pc[p] \in {"body", "unlock_get", "unlock_lookup", "unlock_mutex"}

\* caller p has just run the installer body: frame[p].pre is the file system
\* before it, frame[p].res its outcome
Returned(p) == pc[p] = "unlock_get"

\* the tools whose executable carries the canonical name of the tool
SingleTools ==
    {n_jq, n_igc, n_helm, n_argocd, n_rosa, n_kubeseal, n_kustomize, n_gitu, n_gh, n_glab,
     n_openshift_install, n_operator_sdk}

\* path lies below directory dir
Under(path, dir) == HasPrefix(Abs(path), Abs(dir) \o Slash)

\* what PATH resolved the tool of caller p to before its installer ran
Resolved(p) == LookPath(frame[p].pre, PATH, frame[p].key)

\* the entry at a path, links not followed
Entry(files, p) == IF fileExists(files, p) THEN files.files[Abs(p)] ELSE NoFile

\* the entries of caller p's log that belong to run r
RunLog(p, r) == {i \in 1..Len(log[p]) : log[p][i].run = r}

(***************************************************************************)
(* Properties.                                                             *)
(***************************************************************************)
\* C1: for any canonical tool name, at most one installer body (the section of
\* setupNamedCli between Lock and Unlock) is in progress at any time, however
\* many Read calls run concurrently.
C1_OneBodyPerCanonicalName ==
    \A p, q \in Procs : (p # q /\ InBody(p) /\ InBody(q)) => frame[p].key # frame[q].key

\* one caller is in the body of helm while another, which asked for helm-4.0,
\* waits for the same canonical name
C1_Witness ==
    \E p, q \in Procs :
        /\ InBody(p) /\ pc[q] = "lock_mutex"
        /\ frame[p].key = n_helm /\ frame[q].key = n_helm
        /\ frame[p].cliName # frame[q].cliName

\* C2: a second Lock of a key does not return while the first caller has not
\* unlocked it; a caller that holds key A never delays the Lock of a key B # A;
\* the coarse lock is held only during the lookup-or-insert of get, never by a
\* caller that blocks on or holds a per-key mutex.
C2_KeyedLock ==
    /\ \A p, q \in Procs :
         (p # q /\ Holds(p) /\ pc[q] = "lock_mutex" /\ frame[q].key = frame[p].key)
             => ~ENABLED LockMutex(q)
    /\ \A q \in Procs :
         (/\ pc[q] = "lock_mutex"
          /\ \A p \in Procs : (p # q /\ Holds(p)) => frame[p].key # frame[q].key)
             => ENABLED LockMutex(q)
    /\ lock # 0 => pc[lock] \in {"lock_lookup", "unlock_lookup"}
    /\ \A p \in Procs : pc[p] \in {"lock_lookup", "unlock_lookup"} => ENABLED (LockLookup(p) \/ UnlockLookup(p))

\* two callers are inside the bodies of different tools at the same time
C2_Witness ==
    \E p, q \in Procs : InBody(p) /\ InBody(q) /\ frame[p].key # frame[q].key

\* C3: when Read runs twice in succession with the same tool list and
\* destination directory (the first run without error, nothing else touching
\* the file system or PATH), every installer of the second run returns
\* changed=false and no error.
C3_Idempotent ==
    \A p \in Procs :
        (\A i \in RunLog(p, 1) : log[p][i].err = Nil)
            => \A j \in RunLog(p, 2) : log[p][j].changed = FALSE /\ log[p][j].err = Nil

\* a second run into an absolute directory that ended with every installer
\* reporting changed=false and no error
C3_Witness ==
    \E p \in Procs :
        /\ pc[p] = "idle" /\ frame[p].run = 2 /\ frame[p].binDir = d_abs
        /\ \E i \in RunLog(p, 1) : log[p][i].changed
        /\ \A i \in 1..Len(log[p]) : log[p][i].err = Nil
        /\ \A j \in RunLog(p, 2) : ~log[p][j].changed

\* C4: the final tool list holds exactly the requested names and the five
\* defaults yq, jq, igc, kubeseal, oc, each name once, whatever the order and
\* the duplicates of the requested list.
C4_DefaultMerge ==
    \A p \in Procs :
        frame[p].run > 0 =>
            /\ Elems(frame[p].clis) = Elems(config[p].clis) \cup {n_yq, n_jq, n_igc, n_kubeseal, n_oc}
            /\ \A i, j \in 1..Len(frame[p].clis) : i # j => frame[p].clis[i] # frame[p].clis[j]

\* a requested list that names a default and repeats a name
C4_Witness ==
    \E p \in Procs :
        /\ frame[p].run > 0
        /\ Len(config[p].clis) = 2
        /\ config[p].clis[1] = config[p].clis[2]
        /\ config[p].clis[1] = n_oc
        /\ Len(frame[p].clis) = 5

C6_UnknownTool ==
    \A p \in Procs : \A i \in 1..Len(log[p]) :
        (log[p][i].key \notin DOMAIN installers /\ log[p][i].name # n_kubectl)
            => /\ log[p][i].err = "unable to find installer for cli"
               /\ ~log[p][i].wrote

\* an unknown tool was refused with the "unable to find installer" error
C6_Witness ==
    \E p \in Procs : \E i \in 1..Len(log[p]) :
        /\ log[p][i].key = n_foo
        /\ log[p][i].err = "unable to find installer for cli"
        /\ ~log[p][i].wrote

\* C7: once the installer of a tool of the final list has returned an error, no
\* installer of a later tool is invoked in that run and the run reports exactly
\* that one error.
C7_ErrorStopsRun ==
    \A p \in Procs :
        /\ \A i, j \in 1..Len(log[p]) :
             (i < j /\ log[p][i].run = log[p][j].run) => log[p][i].err = Nil
        /\ Len(diags[p]) <= 1

\* a run in which an installer failed after earlier tools had been installed
C7_Witness ==
    \E p \in Procs : \E i, j \in 1..Len(log[p]) :
        /\ i < j /\ log[p][i].run = log[p][j].run
        /\ log[p][i].changed /\ log[p][i].err = Nil
        /\ log[p][j].err # Nil

\* C8: when the tool's executable resolves on PATH to a path under the
\* destination directory (absolute or relative), the installer returns
\* changed=false and no error, makes no network request and writes nothing.
C8_PresenceShortCircuit ==
    \A p \in Procs :
        (/\ Returned(p)
         /\ frame[p].key \in SingleTools
         /\ frame[p].binDir # <<>>
         /\ Resolved(p) # NotFound
         /\ Under(Resolved(p), frame[p].binDir))
            => /\ frame[p].res.changed = FALSE
               /\ frame[p].res.err = Nil
               /\ frame[p].res.net = 0
               /\ frame[p].res.fs = frame[p].pre

\* a tool found under an absolute destination directory was left alone
C8_Witness ==
    \E p \in Procs :
        /\ Returned(p)
        /\ frame[p].key = n_igc
        /\ frame[p].binDir = d_abs
        /\ Resolved(p) = PathJoin(d_abs, n_igc)
        /\ frame[p].res.net = 0
        /\ ~frame[p].res.changed

\* C9: when a minimum version applies and the executable found on PATH outside
\* the destination directory reports a lower version, a fresh copy is installed
\* into the destination directory (a regular file, not a link to the outdated
\* binary), for direct-binary and archive tools alike, provided the download
\* itself succeeds.
C9_VersionGate ==
    \A p \in Procs :
        (/\ Returned(p)
         /\ frame[p].key \in SingleTools
         /\ frame[p].binDir # <<>>
         /\ Resolved(p) # NotFound
         /\ ~Under(Resolved(p), frame[p].binDir)
         /\ versionGate(frame[p].pre, Resolved(p), frame[p].version) = "absent"
         /\ frame[p].res.err = Nil)
            => /\ frame[p].res.changed
               /\ Entry(frame[p].res.fs, PathJoin(frame[p].binDir, frame[p].key)).kind = "file"

\* an outdated system jq was replaced by a download into the destination
C9_Witness ==
    \E p \in Procs :
        /\ Returned(p)
        /\ frame[p].key = n_jq
        /\ Resolved(p) = PathJoin(SysDir, n_jq)
        /\ versionGate(frame[p].pre, Resolved(p), frame[p].version) = "absent"
        /\ frame[p].res.changed
        /\ Entry(frame[p].res.fs, PathJoin(frame[p].binDir, n_jq)).kind = "file"

\* C10: when the tool resolves on PATH outside the destination directory and
\* no version gate rejects it, the installer makes no download, the link
\* destDir/<name> to that binary exists afterwards, and changed is true exactly
\* when the link was created by this call.
C10_SystemToolFallback ==
    \A p \in Procs :
        (/\ Returned(p)
         /\ frame[p].key \in SingleTools
         /\ frame[p].binDir # <<>>
         /\ Resolved(p) # NotFound
         /\ ~Under(Resolved(p), frame[p].binDir)
         /\ versionGate(frame[p].pre, Resolved(p), frame[p].version) = "pass")
            => /\ frame[p].res.net = 0
               /\ frame[p].res.err = Nil
               /\ Entry(frame[p].res.fs, PathJoin(frame[p].binDir, frame[p].key)) = Link(Resolved(p))
               /\ frame[p].res.changed <=>
                      ~fileExists(frame[p].pre, PathJoin(frame[p].binDir, frame[p].key))

\* a system jq that passes the gate was linked into the destination directory
\* without a download
C10_Witness ==
    \E p \in Procs :
        /\ Returned(p)
        /\ frame[p].key = n_jq
        /\ Resolved(p) = PathJoin(SysDir, n_jq)
        /\ ~fileExists(frame[p].pre, PathJoin(frame[p].binDir, n_jq))
        /\ Entry(frame[p].res.fs, PathJoin(frame[p].binDir, n_jq)) = Link(Resolved(p))
        /\ frame[p].res.net = 0

\* caller p has finished the loop of Read over its final list
LoopDone(p) == pc[p] = "loop" /\ frame[p].idx > Len(frame[p].clis)

\* the file names a tool of the final list stands for
Executables(cliName) ==
    IF canonicalName(cliName) = n_yq THEN {n_yq3, n_yq4}
    ELSE IF canonicalName(cliName) = n_oc THEN {n_oc, n_kubectl}
    ELSE {canonicalName(cliName)}

\* C11: after a provisioning run that reports no error, every tool of the
\* final list has a file or symbolic link in the destination directory (yq3
\* and yq4 for yq, oc and kubectl for oc), whatever the host PATH held before.
C11_AllInstalled ==
    \A p \in Procs :
        (LoopDone(p) /\ diags[p] = <<>>)
            => \A i \in 1..Len(frame[p].clis) :
                   \A n \in Executables(frame[p].clis[i]) :
                       fileExists(fs, PathJoin(frame[p].binDir, n))

\* an error-free run on a host with a current jq and yq left all seven files of
\* the default tools in the destination directory
C11_Witness ==
    \E p \in Procs :
        /\ LoopDone(p)
        /\ diags[p] = <<>>
        /\ frame[p].clis = defaultClis
        /\ fileExists(fs, PathJoin(SysDir, n_yq))
        /\ \A n \in {n_yq3, n_yq4, n_jq, n_igc, n_kubeseal, n_oc, n_kubectl} :
               fileExists(fs, PathJoin(frame[p].binDir, n))

\* C12: PATH is written before the installers start and no write to PATH
\* occurs while an installer is executing, also when several data sources are
\* read concurrently in one provider process.
C12_NoPathWriteDuringInstall ==
    [][PATH' # PATH => \A q \in Procs : ~InBody(q)]_vars

\* one caller is inside an installer while another is about to call os.Setenv
C12_Witness ==
    \E p, q \in Procs :
        /\ p # q
        /\ InBody(p)
        /\ pc[q] = "setenv"

TableVersion(name) ==
    IF name = n_jq THEN <<"1", ".", "7", ".", "1">>
    ELSE IF name = n_igc THEN <<"1", ".", "5", "0", ".", "2">>
    ELSE IF name = n_gitu THEN <<"1", ".", "1", "5", ".", "0">>
    ELSE <<>>

\* C14: a requested name <base>-<numeric dotted version> is split before the
\* registry lookup, the installer is looked up under the base name and receives
\* the explicit version; a name without a numeric suffix is looked up unchanged
\* and its installer receives the default-version table entry of the name
\* (empty for a tool without one).
C14_NameWithVersion ==
    \A p \in Procs :
        InBody(p) =>
            /\ \A b \in DOMAIN installers \cup {n_foo},
                  v \in {<<"4", ".", "0">>, <<"4", ".", "1", "0">>, <<"1", ".", "6">>} :
                   frame[p].cliName = b \o <<"-">> \o v
                       => frame[p].key = b /\ frame[p].version = v
            /\ frame[p].cliName \in DOMAIN installers \cup {n_foo}
                   => /\ frame[p].key = frame[p].cliName
                      /\ frame[p].version = TableVersion(frame[p].cliName)

\* the installer of openshift-install is about to run with version 4.10
C14_Witness ==
    \E p \in Procs :
        /\ InBody(p)
        /\ frame[p].cliName = n_openshift_install \o <<"-", "4", ".", "1", "0">>
        /\ frame[p].key = n_openshift_install
        /\ frame[p].version = <<"4", ".", "1", "0">>

\* the installer of caller p has run and setupNamedCli has not yet returned to
\* the loop (or the process has ended inside it)
Ran(p) == frame[p].res # NoFrame.res

\* C15: when the version text a tool on PATH reports, or the desired minimum
\* version, cannot be parsed, the presence check treats the tool as unversioned:
\* the installer returns no error, the tool is linked into the destination
\* directory and the process goes on.
C15_ParseErrorRecovered ==
    \A p \in Procs :
        (/\ Ran(p)
         /\ frame[p].key \in SingleTools
         /\ frame[p].binDir # <<>>
         /\ frame[p].version # <<>>
         /\ Resolved(p) # NotFound
         /\ ~Under(Resolved(p), frame[p].binDir)
         /\ RunOk(frame[p].pre, Resolved(p))
         /\ Stat(frame[p].pre, Resolved(p)).out # <<>>
         /\ \/ NewVersion(cleanVersionString(Stat(frame[p].pre, Resolved(p)).out)) = VersionError
            \/ NewVersion(frame[p].version) = VersionError)
            => /\ pc[p] # "exited"
               /\ frame[p].res.err = Nil
               /\ fileExists(frame[p].res.fs, PathJoin(frame[p].binDir, frame[p].key))

\* the presence check of jq met a system jq that prints "jq" for --version
C15_Witness ==
    \E p \in Procs :
        /\ Ran(p)
        /\ frame[p].key = n_jq
        /\ Resolved(p) = PathJoin(SysDir, n_jq)
        /\ Stat(frame[p].pre, Resolved(p)).out = <<"j", "q">>
        /\ cleanVersionString(<<"j", "q">>) = <<>>

\* the positions of the regular-file entries of the archive that carry the
\* requested member name
Members == {k \in 1..Len(tar.entries) :
               tar.entries[k].Typeflag = "tar.TypeReg" /\ tar.entries[k].Name = n_helm}

\* every header of the archive can be read
WellFormed == \A k \in 1..Len(tar.entries) : tar.entries[k].Typeflag # "tar.ErrHeader"

\* C16: for every tar stream at most one member is written to the destination
\* file, the walk stops as soon as the first regular-file entry with the
\* requested name has been extracted, and when several entries carry that name
\* the destination holds the content of the first one.
C16_FirstMemberOnly ==
    (tar.done /\ WellFormed)
        => /\ tar.result.writes <= 1
           /\ \A k \in Members :
                  (\A j \in Members : k <= j)
                      => /\ tar.result.read = k
                         /\ Entry(fs, PathJoin(d_abs, n_helm)) = tar.entries[k].body

\* an archive with two members of the requested name has been walked
C16_Witness ==
    /\ tar.done
    /\ WellFormed
    /\ \E j, k \in Members : j < k /\ tar.entries[j].body # tar.entries[k].body

\* C17: extraction of a member that is absent from a well-formed archive
\* returns no error and creates or modifies no file; directory entries and
\* regular files of other names are skipped without effect.
C17_AbsentMember ==
    (tar.done /\ WellFormed /\ Members = {})
        => /\ tar.result.err = Nil
           /\ tar.result.writes = 0
           /\ fs = tar.pre

\* an archive of a directory entry named like the member and a regular file of
\* another name has been walked while the destination file existed
C17_Witness ==
    /\ tar.done
    /\ Members = {}
    /\ \E j, k \in 1..Len(tar.entries) :
           /\ tar.entries[j].Typeflag = "tar.TypeDir"
           /\ tar.entries[j].Name = n_helm
           /\ tar.entries[k].Typeflag = "tar.TypeReg"
    /\ fileExists(tar.pre, PathJoin(d_abs, n_helm))
    /\ tar.result.err = Nil

\* the tools whose installer downloads the executable itself
DirectTools == {n_jq, n_igc, n_argocd, n_gitu, n_operator_sdk}

\* the outside world in which the first download of the installer meets f
WithFetch(f) == [AllGood EXCEPT !.fetch = <<f, "good">>]

\* what the installer of caller p, about to run, returns in the outside world o
Attempt(p, o) ==
    installerBody(fs, PATH, frame[p].binDir, frame[p].key, frame[p].version, o)

\* caller p is about to run an installer that downloads when nothing fails
Downloads(p) == InBody(p) /\ Attempt(p, AllGood).changed /\ Attempt(p, AllGood).net > 0

\* C18: when the response to the download of a direct-binary tool has a status
\* other than 200, the installer returns changed = false with the error of
\* writeFileFromUrl, which carries the status text, and not the error of the
\* self-test.
C18_BadStatus ==
    \A p \in Procs :
        (Downloads(p) /\ frame[p].key \in DirectTools)
            => /\ ~Attempt(p, WithFetch("status")).changed
               /\ Attempt(p, WithFetch("status")).err = "bad status retrieving file"
               /\ Attempt(p, WithFetch("status")).detail = <<"4", "0", "4">>

\* the installer of jq has returned the error of a download answered with 404
C18_Witness ==
    \E p \in Procs :
        /\ Returned(p)
        /\ frame[p].key = n_jq
        /\ ~frame[p].res.changed
        /\ frame[p].res.err = "bad status retrieving file"
        /\ frame[p].res.detail = <<"4", "0", "4">>
        /\ frame[p].res.net = 1

\* the errors an installer returns when its download failed
DownloadFailures ==
    {"Get: connection failed", "bad status retrieving file", "unable to extract tgz from url"}

\* C19: after a run in which the download of a tool failed (network error or a
\* status other than 200), the presence check of the next run finds the tool
\* not installed and its installer attempts the download again.
C19_RetryAfterFailedDownload ==
    \A p \in Procs :
        \A i \in RunLog(p, 1), j \in RunLog(p, 2) :
            (log[p][i].key = log[p][j].key /\ log[p][i].err \in DownloadFailures)
                => log[p][j].net > 0

\* the download of jq failed in the first run and the second run has called
\* the installer of jq again
C19_Witness ==
    \E p \in Procs :
        \E i \in RunLog(p, 1), j \in RunLog(p, 2) :
            /\ log[p][i].key = n_jq
            /\ log[p][j].key = n_jq
            /\ log[p][i].err = "bad status retrieving file"

\* C20: when the executable an installer has just downloaded or extracted
\* exits non-zero in its self-test, the installer returns an error whose
\* message includes the captured standard error output, for direct-binary and
\* archive tools alike.
C20_SelfTestError ==
    \A p \in Procs :
        (Downloads(p) /\ frame[p].key \in SingleTools)
            => /\ Attempt(p, WithFetch("bad")).err = "unable to validate downloaded cli"
               /\ Attempt(p, WithFetch("bad")).detail = <<"b", "a", "d">>

\* the installer of jq has returned the error of a failed self-test with the
\* output the executable wrote to standard error
C20_Witness ==
    \E p \in Procs :
        /\ Returned(p)
        /\ frame[p].key = n_jq
        /\ frame[p].res.err = "unable to validate downloaded cli"
        /\ frame[p].res.detail = <<"b", "a", "d">>

\* the composite installers and what their two sub-installers return when
\* called on their own, the second on the file system the first leaves
Sub1(p, o) ==
    IF frame[p].key = n_yq
    THEN setupYqN(MkdirAll(fs, frame[p].binDir), PATH, frame[p].binDir, n_yq3, "3", o.fetch[1])
    ELSE setupOc(MkdirAll(fs, frame[p].binDir), PATH, frame[p].binDir, o)
Sub2(p, o, s1) ==
    IF frame[p].key = n_yq
    THEN setupYqN(s1.fs, PATH, frame[p].binDir, n_yq4, "4", o.fetch[2])
    ELSE setupKubectl(s1.fs, PATH, frame[p].binDir, o)

\* C21: a composite installer (setupYq over yq3 and yq4, setupKube over oc and
\* kubectl) returns changed = true exactly when at least one sub-installer
\* returned changed = true and none returned an error; on the first
\* sub-installer error the later sub-installer is not invoked (no request, no
\* write after the first one's) and the composite returns changed = false
\* with that error.
C21_Composite ==
    \A p \in Procs :
        (InBody(p) /\ frame[p].key \in {n_yq, n_oc} /\ frame[p].binDir # <<>>)
            => \A o \in Outcomes :
                   LET agrees(r, s1, s2) ==
                           /\ r.changed <=>
                                  (s1.err = Nil /\ s2.err = Nil /\ (s1.changed \/ s2.changed))
                           /\ s1.err # Nil => (r.err = s1.err /\ r.fs = s1.fs /\ r.net = s1.net)
                           /\ (s1.err = Nil /\ s2.err # Nil) => r.err = s2.err
                           /\ (s1.err = Nil /\ s2.err = Nil) => r.err = Nil
                       second(r, s1) == agrees(r, s1, Sub2(p, o, s1))
                   IN  second(Attempt(p, o), Sub1(p, o))

\* setupYq has returned the error of the yq3 download; yq4 was not attempted
C21_Witness ==
    \E p \in Procs :
        /\ Returned(p)
        /\ frame[p].key = n_yq
        /\ ~frame[p].res.changed
        /\ frame[p].res.err = "bad status retrieving file"
        /\ frame[p].res.net = 1
        /\ fileExists(frame[p].res.fs, PathJoin(frame[p].binDir, n_yq3))
        /\ ~fileExists(frame[p].res.fs, PathJoin(frame[p].binDir, n_yq4))

\* the calls of createSymLink the installers make: the tool looked up on PATH
\* and the name of the link in the destination directory
LinkArgs ==
    {<<n_yq, n_yq3>>, <<n_yq, n_yq4>>, <<n_yq3, n_yq3>>, <<n_yq4, n_yq4>>, <<n_jq, n_jq>>,
     <<n_helm, n_helm>>, <<n_igc, n_igc>>}

\* the symbolic links of a file system
Links(f) == {q \in DOMAIN f.files : f.files[q].kind = "link"}

ReleaseTools ==
    {n_igc, n_argocd, n_kubeseal, n_gh, n_glab, n_gitu, n_operator_sdk, n_ibmcloud}

\* the outside world in which the release lookup meets l
WithLookup(l) == [AllGood EXCEPT !.lookup = l]

\* the error getLatestGitHubRelease returns for a lookup that fails
LookupError(l) ==
    IF l = "neterr" THEN "neterr"
    ELSE IF l = "nolocation" THEN "unable to retrieve location header from url"
    ELSE "unable to parse latest tag from url"

\* C23: the latest-release resolution issues a single request and returns the
\* tag that follows "/tag/" in the Location header, which names the release the
\* installer downloads; a network error, a missing Location header and a
\* Location without a tag each yield an error after that one request, and the
\* installer of the tool then returns changed = false with that error without
\* any download (no further request, nothing written).
C23_ReleaseLookup ==
    /\ getLatestGitHubRelease("ok") =
           [TagName |-> <<"v", "2", ".", "0", ".", "0">>, err |-> Nil, net |-> 1, used |-> 0]
    /\ \A p \in Procs :
           (Downloads(p) /\ frame[p].key \in ReleaseTools)
               => /\ Stat(Attempt(p, AllGood).fs, PathJoin(frame[p].binDir, frame[p].key)).out
                         = <<"v", "2", ".", "0", ".", "0">>
                  /\ \A l \in {"neterr", "nolocation", "notag"} :
                         LET failed(r) ==
                                 /\ ~r.changed
                                 /\ r.err = LookupError(l)
                                 /\ r.net = 1
                                 /\ r.fs = MkdirAll(fs, frame[p].binDir)
                         IN  failed(Attempt(p, WithLookup(l)))

\* the installer of igc has returned the error of a release lookup that was
\* redirected to a page without a tag; nothing was downloaded
C23_Witness ==
    \E p \in Procs :
        /\ Returned(p)
        /\ frame[p].key = n_igc
        /\ ~frame[p].res.changed
        /\ frame[p].res.err = "unable to parse latest tag from url"
        /\ frame[p].res.net = 1
        /\ ~fileExists(frame[p].res.fs, PathJoin(frame[p].binDir, n_igc))

\* the major version a tool reports
Major(out) == NewVersion(cleanVersionString(out))[1]

\* the tool of the given name that caller p's PATH led to before its installer
\* ran reports major version n
OnPath(p, name, n) ==
    LET tool(cliPath) ==
            /\ cliPath # NotFound
            /\ RunOk(frame[p].pre, cliPath)
            /\ Major(Stat(frame[p].pre, cliPath).out) = n
    IN  tool(LookPath(MkdirAll(frame[p].pre, frame[p].binDir), PATH, name))

\* C27: when the yq of the host reports major version 3 (4) the installer
\* leaves a link yq3 (yq4) to it in the destination directory and downloads no
\* yq3 (yq4), yq4 being reached only when setupYq3 returned no error; a variant
\* is downloaded only when neither yq nor the variant's own name leads on PATH
\* to a tool of that major version; the yq of the host is never linked under
\* both names.
C27_YqVariants ==
    \A p \in Procs :
        (Returned(p) /\ frame[p].key = n_yq /\ frame[p].binDir # <<>>)
            => LET yq3 == Entry(frame[p].res.fs, PathJoin(frame[p].binDir, n_yq3))
                   yq4 == Entry(frame[p].res.fs, PathJoin(frame[p].binDir, n_yq4))
                   sys == Link(PathJoin(SysDir, n_yq))
                   new(name) == ~fileExists(frame[p].pre, PathJoin(frame[p].binDir, name))
               IN  /\ OnPath(p, n_yq, 3) => yq3 = sys
                   /\ OnPath(p, n_yq, 4) => (frame[p].res.err = Nil => yq4 = sys)
                   /\ (yq3.kind = "file" /\ new(n_yq3))
                          => (~OnPath(p, n_yq, 3) /\ ~OnPath(p, n_yq3, 3))
                   /\ (yq4.kind = "file" /\ new(n_yq4))
                          => (~OnPath(p, n_yq, 4) /\ ~OnPath(p, n_yq4, 4))
                   /\ ~(yq3 = sys /\ yq4 = sys)

\* on a host with yq 3 the installer has linked yq3 to it and downloaded yq4
C27_Witness ==
    \E p \in Procs :
        /\ Returned(p)
        /\ frame[p].key = n_yq
        /\ OnPath(p, n_yq, 3)
        /\ Entry(frame[p].res.fs, PathJoin(frame[p].binDir, n_yq3)) = Link(PathJoin(SysDir, n_yq))
        /\ Entry(frame[p].res.fs, PathJoin(frame[p].binDir, n_yq4)).kind = "file"
        /\ frame[p].res.changed
        /\ frame[p].res.net = 1

\* the plugin a plugin sub-tool stands for
PluginOf(name) ==
    IF name = n_ibmcloud_is THEN "infrastructure-service"
    ELSE IF name = n_ibmcloud_ob THEN "observe-service"
    ELSE IF name = n_ibmcloud_ks THEN "kubernetes-service"
    ELSE "container-registry"

\* C28: the installer of a plugin sub-tool (ibmcloud-is, -ob, -ks, -cr) asks
\* the ibmcloud of the destination directory with "plugin show"; on exit 0 it
\* returns changed = false and does nothing else; otherwise it runs "plugin
\* install" and returns changed = true when that exits 0, changed = false with
\* the error when it does not; it issues no request and writes no file itself.
C28_PluginInstaller ==
    \A p \in Procs :
        (InBody(p) /\ frame[p].binDir # <<>>
         /\ frame[p].key \in {n_ibmcloud_is, n_ibmcloud_ob, n_ibmcloud_ks, n_ibmcloud_cr})
            => \A f \in {"good", "bad"} :
                   LET plugin == PluginOf(frame[p].key)
                       runs == RunOk(fs, PathJoin(frame[p].binDir, n_ibmcloud))
                       shown == runs /\ plugin \in fs.plugins
                       installer(r) ==
                           /\ r.net = 0
                           /\ r.fs.files = fs.files
                           /\ shown => (~r.changed /\ r.err = Nil /\ r.fs.plugins = fs.plugins)
                           /\ (~shown /\ runs /\ f = "good")
                                  => (r.changed /\ r.err = Nil
                                      /\ r.fs.plugins = fs.plugins \cup {plugin})
                           /\ (~shown /\ ~(runs /\ f = "good"))
                                  => (~r.changed /\ r.err # Nil /\ r.fs.plugins = fs.plugins)
                   IN  installer(Attempt(p, WithFetch(f)))

\* the second run found the plugin that the first run had installed
C28_Witness ==
    \E p \in Procs :
        /\ Returned(p)
        /\ frame[p].run = 2
        /\ frame[p].key = n_ibmcloud_is
        /\ "infrastructure-service" \in frame[p].pre.plugins
        /\ \E i \in RunLog(p, 1) : log[p][i].key = n_ibmcloud_is /\ log[p][i].changed
        /\ ~frame[p].res.changed
        /\ frame[p].res.err = Nil

\* the (major, minor, patch) of the version texts of the hosts, <<>> for a text
\* that holds no number
Triple(out) ==
    IF out = <<"j", "q", "-", "1", ".", "6">> THEN <<1, 6, 0>>
    ELSE IF out = <<"j", "q", "-", "1", ".", "7", ".", "1">> THEN <<1, 7, 1>>
    ELSE IF out = <<"v", "3", ".", "8", ".", "2">> THEN <<3, 8, 2>>
    ELSE IF out = <<"v", "3">> THEN <<3, 0, 0>>
    ELSE <<>>

\* C30: cleanVersionString returns "major.minor.patch" of the first version in
\* the text, an absent component rendered as 0 ("jq-1.7.1 (linked...)" gives
\* 1.7.1, "jq-1.6" gives 1.6.0, "v3" gives 3.0.0), and the version gate orders
\* versions on (major, minor, patch), so that 1.6.0 is below 1.7.1: a tool
\* whose version text is met by the gate is parsed to its triple, and it is
\* rejected exactly when the triple is below the minimum version.
C30_CleanVersion ==
    /\ cleanVersionString(<<"j", "q", "-", "1", ".", "7", ".", "1", " ", "(", "l", ")">>)
           = <<"1", ".", "7", ".", "1">>
    /\ cleanVersionString(<<"j", "q", "-", "1", ".", "6">>) = <<"1", ".", "6", ".", "0">>
    /\ cleanVersionString(<<"v", "3">>) = <<"3", ".", "0", ".", "0">>
    /\ LessThan(NewVersion(<<"1", ".", "6", ".", "0">>), NewVersion(<<"1", ".", "7", ".", "1">>))
    /\ \A p \in Procs :
           (/\ Ran(p)
            /\ frame[p].key \in SingleTools
            /\ frame[p].binDir # <<>>
            /\ frame[p].version # <<>>
            /\ Resolved(p) # NotFound
            /\ ~Under(Resolved(p), frame[p].binDir)
            /\ RunOk(frame[p].pre, Resolved(p))
            /\ Triple(Stat(frame[p].pre, Resolved(p)).out) # <<>>)
               => LET parsed(out) ==
                          /\ NewVersion(cleanVersionString(out)) = Triple(out)
                          /\ versionGate(frame[p].pre, Resolved(p), frame[p].version) =
                                 IF LessThan(Triple(out), NewVersion(frame[p].version))
                                 THEN "absent" ELSE "pass"
                  IN  parsed(Stat(frame[p].pre, Resolved(p)).out)

\* the version gate of helm, asked for 4.0, met a helm that prints "v3"
C30_Witness ==
    \E p \in Procs :
        /\ Ran(p)
        /\ frame[p].key = n_helm
        /\ frame[p].version = <<"4", ".", "0">>
        /\ Resolved(p) = PathJoin(SysDir, n_helm)
        /\ Stat(frame[p].pre, Resolved(p)).out = <<"v", "3">>

\* caller p is inside a call of MutexKV.Lock
Locking(p) == pc[p] \in {"lock_get", "lock_lookup", "lock_mutex"}

Reentered(p) == pc[p] = "lock_mutex" /\ frame[p].key \in frame[p].held

\* C25: re-entrant acquisition is not supported: a caller that calls Lock(k)
\* again while it holds k does not return from the second Lock, in any step
\* taken while no caller has unlocked k since the first Lock; until then the
\* mutex of k stays locked and the caller stays inside Lock.
C25_ReentrantLockBlocks ==
    [][\A p \in Procs :
          Reentered(p) => /\ frame[p].m \in locked
                          /\ ~ENABLED LockMutex(p)
                          /\ pc'[p] \in {"lock_mutex", "exited"}]_vars

\* a caller is blocked in its second Lock of a key, every other caller has
\* made all its calls: the caller never returns
C25_Witness ==
    \E p \in Procs :
        /\ Reentered(p)
        /\ \A q \in Procs \ {p} : Between(q) /\ left[q] = 0
        /\ ~ENABLED NextKV

\* C26: cancellation propagates: once the context of a Read call is cancelled,
\* the installer that is about to run makes no request, installs nothing and
\* leaves the file system as it is, and the run starts no further installer.
C26_CancellationPropagates ==
    [][\A p \in Procs :
          frame[p].cancelled =>
              /\ (InBody(p) /\ ~InBody(p)') =>
                     (frame'[p].res.net = 0 /\ ~frame'[p].res.changed /\ fs' = fs)
              /\ ~(pc[p] = "loop" /\ pc'[p] = "lock_get")]_vars

\* the context of a Read call is cancelled while the installer of a tool that is
\* not on the host is about to run
C26_Witness ==
    \E p \in Procs :
        /\ frame[p].cancelled
        /\ InBody(p)
        /\ frame[p].key = n_jq
        /\ ~fileExists(fs, PathJoin(frame[p].binDir, n_jq))

\* C29: the installer registry is fully populated before any lookup result is
\* used: in every interleaving of concurrent calls of setupNamedCli, the first
\* ones racing on the lazy initialisation included, the lookup of a registered
\* name finds its installer, the map a caller got from getInstallers holds
\* every name, and no map is written after it was read.
C29_RegistryPopulated ==
    /\ ~registry.dirty
    /\ \A p \in Procs :
          /\ frame[p].installers # 0 =>
                 registry.maps[frame[p].installers] = DOMAIN installers
          /\ (Returned(p) /\ frame[p].key \in DOMAIN installers) =>
                 frame[p].res.err # "unable to find installer for cli"

\* the first calls race on the lazy initialisation: one caller is writing the
\* entries of the map it made while another, which found the variable set, is
\* about to look a registered name up in that map
C29_Witness ==
    \E p, q \in Procs :
        /\ pc[p] = "put"
        /\ registry.ptr = p
        /\ InBody(q)
        /\ frame[q].installers = p
        /\ frame[q].key \in DOMAIN installers

\* the entries of the log of caller p: the calls of setupNamedCli that returned
Returns(p) == {log[p][i] : i \in 1..Len(log[p])}

\* the provider process has not ended in log.Fatal or a fatal error of the runtime
Running == \A p \in Procs : pc[p] # "exited"

\* C31: the lock taken by setupNamedCli is released on every return path: while
\* the process runs, a mutex is locked only while a caller is between Lock and
\* the end of Unlock for its key, so that once setupNamedCli has returned, with
\* or without an error, the mutex of its key is free for the next call.
C31_UnlockOnEveryReturn ==
    Running =>
        /\ \A m \in locked : \E p \in Procs : Holds(p) /\ frame[p].m = m
        /\ \A p \in Procs : ~Holds(p) /\ ~Locking(p) => frame[p].held = {}

\* a caller is back in the loop of Read after calls of setupNamedCli that
\* returned without error, with an error of the installer and without
\* installer, and no mutex is locked
C31_Witness ==
    \E p \in Procs :
        /\ pc[p] = "loop"
        /\ locked = {}
        /\ DOMAIN store # {}
        /\ \E e \in Returns(p) : e.err = Nil /\ e.changed
        /\ \E e \in Returns(p) : e.err = "unable to find installer for cli"
        /\ \E e \in Returns(p) :
              e.err \notin {Nil, "unable to find installer for cli", "unable to create directory"}

\* the directory creation failed in every call of setupNamedCli of a run, and no
\* mutex is locked
ReturnedAfterMkdirError ==
    \E p \in Procs :
        /\ pc[p] = "loop"
        /\ locked = {}
        /\ \E e \in Returns(p) : e.err = "unable to create directory"

\* caller p has made its Read calls, or the process has ended
Done(p) == pc[p] = "exited" \/ (pc[p] = "idle" /\ left[p] = 0)

\* C32: deadlock freedom and progress: under the scheduling of the runtime, with
\* installer bodies that terminate, every call of Lock by any of the concurrent
\* callers returns and every Read call terminates.
C32_Progress ==
    /\ \A p \in Procs : Locking(p) ~> (InBody(p) \/ pc[p] = "exited")
    /\ <>(\A p \in Procs : Done(p))

\* a caller waits in Lock for the mutex of the key another caller holds
C32_Witness ==
    \E p, q \in Procs :
        /\ pc[p] = "lock_mutex"
        /\ frame[p].m \in locked
        /\ Holds(q)
        /\ frame[q].m = frame[p].m

\* C33: registry stability: the key-to-mutex map only grows, a key keeps the
\* mutex it was given (no entry is removed or replaced, no two keys share a
\* mutex), and every get of a key returns that mutex, so that Unlock(key)
\* releases the mutex Lock(key) acquired.
C33_StoreStable ==
    [][/\ \A k \in DOMAIN store : k \in DOMAIN store' /\ store'[k] = store[k]
       /\ \A k1, k2 \in DOMAIN store' : store'[k1] = store'[k2] => k1 = k2
       /\ \A p \in Procs :
             pc'[p] \in {"lock_mutex", "unlock_mutex"} => frame'[p].m = store'[frame'[p].key]
       /\ \A p \in Procs :
             (pc[p] = "unlock_mutex" /\ pc'[p] = "loop") =>
                 locked' = locked \ {store[frame[p].key]}]_vars

\* the store holds the mutexes of two keys, and a caller that locked one of the
\* keys is about to unlock its mutex while the other mutex is locked too
C33_Witness ==
    \E p \in Procs :
        /\ pc[p] = "unlock_mutex"
        /\ frame[p].key \in frame[p].held
        /\ Cardinality(DOMAIN store) = 2
        /\ Cardinality(locked) = 2
        /\ frame[p].m \in locked

\* the names of the calls of setupNamedCli that have returned in the current
\* run of caller p, in the order of their return
Processed(p) ==
    LET n == Cardinality(RunLog(p, frame[p].run))
    IN  [i \in 1..n |-> log[p][Len(log[p]) - n + i].name]

\* C34: within one Read call the tools are processed strictly one after another
\* in the order of the final list, the five defaults first: whenever the call
\* is at tool idx (asking for its lock, running its installer or releasing the
\* lock), the calls for the tools 1..idx-1 have returned, in that order, and no
\* other; so the installer of a plugin runs after that of ibmcloud returned.
C34_InListOrder ==
    \A p \in Procs :
        frame[p].run > 0 =>
            /\ SubSeq(frame[p].clis, 1, Len(defaultClis)) = defaultClis
            /\ frame[p].idx - 1 <= Len(frame[p].clis)
            /\ Processed(p) = SubSeq(frame[p].clis, 1, frame[p].idx - 1)
            /\ (Locking(p) \/ Holds(p)) => frame[p].cliName = frame[p].clis[frame[p].idx]
            /\ (InBody(p) /\ frame[p].key = n_ibmcloud_is) =>
                   \E i \in 1..Len(Processed(p)) : Processed(p)[i] = n_ibmcloud

\* the installer of the plugin ibmcloud-is is about to run in the second call of
\* a caller that requested ibmcloud and ibmcloud-is: the five defaults and
\* ibmcloud have been processed before it
C34_Witness ==
    \E p \in Procs :
        /\ InBody(p)
        /\ frame[p].run = 2
        /\ frame[p].key = n_ibmcloud_is
        /\ Processed(p) = defaultClis \o <<n_ibmcloud>>

\* caller p takes the step of setupNamedCli for the name "kubectl"
KubectlCall(p) ==
    /\ pc[p] = "loop"
    /\ frame[p].idx <= Len(frame[p].clis)
    /\ frame[p].clis[frame[p].idx] = n_kubectl
    /\ frame'[p].idx = frame[p].idx + 1

\* the step puts kubectl into the destination directory of caller p
KubectlAppears(p) ==
    /\ ~fileExists(fs, PathJoin(frame[p].binDir, n_kubectl))
    /\ fileExists(fs', PathJoin(frame[p].binDir, n_kubectl))

\* C35: the name "kubectl" is a no-op at the top level: setupNamedCli returns
\* changed = false and no error, and takes no lock, creates no directory and
\* writes nothing; kubectl comes into the destination directory only in the
\* installer of "oc", under the key "oc", with an outcome for which setupOc
\* returned no error, and oc is in the directory then.
C35_KubectlNoOp ==
    [][\A p \in Procs :
          /\ KubectlCall(p) =>
                 /\ pc' = pc /\ fs' = fs /\ PATH' = PATH
                 /\ lock' = lock /\ store' = store /\ locked' = locked
                 /\ diags' = diags
                 /\ Len(log'[p]) = Len(log[p]) + 1
                 /\ LET e == log'[p][Len(log'[p])]
                    IN  e.name = n_kubectl /\ ~e.changed /\ e.err = Nil /\ e.net = 0 /\ ~e.wrote
          /\ KubectlAppears(p) =>
                 /\ InBody(p) /\ frame[p].key = n_oc
                 /\ frame[p].m \in locked /\ store[n_oc] = frame[p].m
                 /\ fileExists(fs', PathJoin(frame[p].binDir, n_oc))
                 /\ \E o \in Outcomes : Sub1(p, o).err = Nil /\ Attempt(p, o).fs = fs']_vars

\* the call of setupNamedCli for a requested "kubectl" has returned: kubectl is
\* in the destination directory since the installer of oc ran, and no mutex is
\* locked and none was made for the key kubectl
C35_Witness ==
    \E p \in Procs :
        /\ pc[p] = "loop"
        /\ Len(log[p]) > 0
        /\ log[p][Len(log[p])].name = n_kubectl
        /\ fileExists(fs, PathJoin(frame[p].binDir, n_kubectl))
        /\ n_oc \in DOMAIN store
        /\ n_kubectl \notin DOMAIN store
        /\ locked = {}

\* the call of setupBinary the installer of caller p would make for its tool,
\* the download meeting f
BinaryCall(p, f) ==
    setupBinary(MkdirAll(fs, frame[p].binDir), PATH, frame[p].binDir, frame[p].key,
                frame[p].version, f, DownloadedOut(frame[p].key, frame[p].version))

\* C36: setupBinary never overwrites an existing entry: when a file or symlink
\* exists at destDir/<name> it returns changed = false and no error, makes no
\* request and leaves the file system as it is, whatever the download would
\* have met; it writes the destination only when no entry exists there.
C36_NoOverwrite ==
    \A p \in Procs :
        (InBody(p) /\ frame[p].key \in DirectTools /\ frame[p].binDir # <<>>) =>
            \A f \in FetchOutcomes :
                LET kept(r, before) ==
                        IF fileExists(fs, PathJoin(frame[p].binDir, frame[p].key))
                        THEN ~r.changed /\ r.err = Nil /\ r.net = 0 /\ r.fs = before
                        ELSE \A q \in DOMAIN before.files :
                                 q \in DOMAIN r.fs.files /\ r.fs.files[q] = before.files[q]
                IN  kept(BinaryCall(p, f), MkdirAll(fs, frame[p].binDir))

\* the installer of jq is about to run in a second call with a relative bin_dir:
\* the destination holds the empty file a failed download left, which the
\* presence check does not accept and setupBinary does not replace
C36_Witness ==
    \E p \in Procs :
        /\ InBody(p)
        /\ frame[p].key = n_jq
        /\ frame[p].binDir = d_rel
        /\ fileExists(fs, PathJoin(d_rel, n_jq))
        /\ ~cliAlreadyPresent(MkdirAll(fs, d_rel), PATH, d_rel, n_jq, frame[p].version).changed
        /\ BinaryCall(p, "good").fs = fs

\* the requested names that stand for the same tool
SameTool == {{n_jq, n_jq_1_6}, {n_openshift_install, n_openshift_install_4_10}}

\* C37: the lock key is the requested name without its version suffix: the
\* calls for jq and jq-1.6, and for openshift-install and
\* openshift-install-4.10, ask for the mutex of one key, the store has no key
\* with a version, and no two callers run the installer of one tool at the
\* same time, whichever of its names they were asked for.
C37_KeyWithoutVersion ==
    /\ \A p \in Procs :
          (Locking(p) \/ Holds(p)) =>
              /\ frame[p].cliName \in {n_jq, n_jq_1_6} => frame[p].key = n_jq
              /\ frame[p].cliName \in {n_openshift_install, n_openshift_install_4_10}
                     => frame[p].key = n_openshift_install
    /\ DOMAIN store \cap {n_jq_1_6, n_openshift_install_4_10} = {}
    /\ \A p, q \in Procs :
          (p # q /\ Holds(p) /\ Holds(q)) =>
              \A tool \in SameTool : ~(frame[p].cliName \in tool /\ frame[q].cliName \in tool)

\* one caller runs the installer it was asked for as openshift-install-4.10
\* while the other, asked for openshift-install, waits for the same mutex
C37_Witness ==
    \E p, q \in Procs :
        /\ InBody(p)
        /\ frame[p].cliName = n_openshift_install_4_10
        /\ pc[q] = "lock_mutex"
        /\ frame[q].cliName = n_openshift_install
        /\ frame[q].m = frame[p].m
        /\ frame[p].m \in locked

\* the entries of PATH
OnPATH == {SplitList(PATH)[i] : i \in 1..Len(SplitList(PATH))}

\* C38: no lost PATH update: once two concurrent Read calls with different
\* destination directories have both returned, PATH holds both directories
\* ahead of the original PATH.
C38_NoLostPathUpdate ==
    (Running /\ \A p \in Procs : Done(p)) =>
        /\ \A p \in Procs : frame[p].run > 0 => Abs(frame[p].binDir) \in OnPATH
        /\ SplitList(PATH)[Len(SplitList(PATH))] = SysDir
        /\ Len(SplitList(PATH)) = 3

\* two concurrent Read calls with different destination directories have both
\* returned
C38_Witness ==
    /\ Running
    /\ \A p \in Procs : Done(p)
    /\ \E p, q \in Procs :
          /\ frame[p].run > 0 /\ frame[q].run > 0
          /\ frame[p].binDir # <<>> /\ frame[q].binDir # <<>>
          /\ Abs(frame[p].binDir) # Abs(frame[q].binDir)

\* the tokens the installers use for a Linux host and for an architecture
\* that is not ARM
LinuxTokens(cliName) ==
    CASE cliName = n_jq -> {"jq-linux"}
      [] cliName = n_glab -> {"Linux"}
      [] cliName = n_ibmcloud -> {"linux_amd64", "linux_arm64"}
      [] OTHER -> {"linux"}
NonArmTokens(cliName) ==
    CASE cliName = n_jq -> {"-amd64"}
      [] cliName \in {n_igc, n_gitu} -> {"x64"}
      [] cliName = n_glab -> {"x86_64"}
      [] cliName = n_ibmcloud -> {"linux_amd64", "macos"}
      [] OTHER -> {"amd64"}
ArchToken(t) == IF t.cliName = n_ibmcloud THEN t.osName ELSE t.arch

\* the text holds the word at some position
Contains(s, word) ==
    \E pre, post \in 0..Len(s) :
        /\ pre + Len(word) + post = Len(s)
        /\ \A i \in 1..Len(word) : s[pre + i] = word[i]

\* C39: platform resolution is total: isArmArch holds exactly when the
\* architecture begins with "arm" and isMacOs exactly when the OS contains
\* "darwin"; for every tool an architecture that does not begin with "arm"
\* selects the non-ARM token and an OS that is not macOS the Linux token, or the
\* alpine token for igc and gitu when the Alpine flag is set.
C39_PlatformResolution ==
    /\ isArmArch(envContext) <=> HasPrefix(envContext.Arch, s_arm)
    /\ isMacOs(envContext) <=> Contains(envContext.Os, s_darwin)
    /\ platform # NoPlatform =>
        /\ platform.osName # ""
        /\ platform.cliName # n_ibmcloud => platform.arch # ""
        /\ ~HasPrefix(envContext.Arch, s_arm) =>
                ArchToken(platform) \in NonArmTokens(platform.cliName)
        /\ ~Contains(envContext.Os, s_darwin) =>
                IF platform.cliName \in {n_igc, n_gitu} /\ envContext.Alpine
                THEN platform.osName = "alpine"
                ELSE platform.osName \in LinuxTokens(platform.cliName)

\* igc builds its address on an Alpine host of an architecture that is neither
\* ARM by the prefix rule nor a known one
C39_Witness ==
    /\ platform.cliName = n_igc
    /\ envContext.Alpine
    /\ envContext.Arch = <<"a", "a", "r", "c", "h", "6", "4">>
    /\ envContext.Os = <<"l", "i", "n", "u", "x">>
    /\ platform.osName = "alpine"
    /\ platform.arch = "x64"

\* C40: every installer outcome that carries an error has changed = false: no
\* installer of the registry, and neither setupBinary nor setupBinaryFromTgz,
\* returns changed = true together with an error.
C40_ErrorMeansUnchanged ==
    \A p \in Procs :
        Returned(p) => (frame[p].res.err # Nil => ~frame[p].res.changed)

\* the installer of a direct-binary tool has returned the error of a failed
\* self-test
C40_Witness ==
    \E p \in Procs :
        /\ Returned(p)
        /\ frame[p].key \in DirectTools
        /\ frame[p].res.err = "unable to validate downloaded cli"
        /\ ~frame[p].res.changed

====
